---- MODULE Spec2Model ----
(***************************************************************************)
(* Booking and approval engine of medify: serial availability and serial   *)
(* booking (patient.controller.js), the appointment lifecycle              *)
(* (patient.controller.js, doctor controller) and the approval lifecycle   *)
(* of doctors and hospitals (hospital controller, admin.controller.js).    *)
(*                                                                         *)
(* Times of day are stored by the program as "HH:mm" strings; the model    *)
(* writes such a string as the pair <<HH, mm>>.  Dates are day numbers.    *)
(***************************************************************************)
EXTENDS Integers, Sequences, FiniteSets, TLC

\* ------------------------------------------------------------------ bounds

\* Largest number of stored appointments.
MaxAppointments == 2
\* Largest number of entries of the Approval collection.
MaxApprovals == 4
\* Serial numbers a request may carry beyond the largest totalSerialsPerDay.
ExtraSerials == 2
\* totalSerialsPerDay of the policies the booking states start from.
PolicySerials == 4

\* ------------------------------------------------------- identities, values

NoId == "none"

PatientIds == {"p1", "p2"}
\* bookSerial requests that may be in flight at once.
RequestSlots == {1, 2}
\* d1 and d2 are stored doctors; d0 is an id of no stored doctor.
DoctorIds == {"d1", "d2"}
UnknownDoctor == "d0"
HospitalIds == {"h1"}
HospitalAdmins == {"a1"}
SuperAdmins == {"s1"}

AppointmentStatuses ==
    {"pending", "accepted", "rejected", "completed", "no_show", "cancelled"}
\* The statuses that hold a slot, with 'cancelled' among them.
ActiveStatuses_WithCancelled == {"pending", "accepted", "cancelled"}

\* status: { $in: ['pending', 'accepted'] }
ActiveStatuses == {"pending", "accepted"}

\* ------------------------------------------------------------ time strings

\* `${String(h).padStart(2,'0')}:${String(m).padStart(2,'0')}` of a number of
\* minutes since midnight.
FormatTime(minutes) == <<minutes \div 60, minutes % 60>>

\* const [h, m] = s.split(':').map(Number); h * 60 + m
ParseMinutes(s) == s[1] * 60 + s[2]

\* moment(date).day(): the weekday of a date.
DayOfWeek(date) == date % 7

\* The quotient rounded up.
SlotDuration_Ceiling(settings) ==
    (ParseMinutes(settings.endTime) - ParseMinutes(settings.startTime)
        + settings.totalSerialsPerDay - 1) \div settings.totalSerialsPerDay

\* Math.floor(totalMinutes / totalSerialsPerDay)
SlotDuration(settings) ==
    (ParseMinutes(settings.endTime) - ParseMinutes(settings.startTime))
        \div settings.totalSerialsPerDay

\* The start computed from i instead of i - 1.
SerialStartTime_FromOne(settings, i) ==
    FormatTime(ParseMinutes(settings.startTime) + i * SlotDuration(settings))

\* Start of serial i as the program formats it.
SerialStartTime(settings, i) ==
    FormatTime(ParseMinutes(settings.startTime) + (i - 1) * SlotDuration(settings))

\* End of serial i as the program formats it.
SerialEndTime(settings, i) ==
    FormatTime(ParseMinutes(settings.startTime) + (i - 1) * SlotDuration(settings)
               + SlotDuration(settings))

\* ------------------------------------------------------------------- state

VARIABLES
    doctors,          \* Doctor collection: id -> [exists, status, hospitalId, userId]
    hospitals,        \* Hospital collection: id -> [exists, status, admins, associatedDoctors]
    approvals,        \* Approval collection, in insertion order
    serialSettings,   \* SerialSettings collection, in insertion order
    chambers,         \* Chamber collection, in insertion order; _id is the index
    appointments,     \* Appointment collection, in insertion order; _id is the index
    prescriptions,    \* Prescription collection: the appointmentIds that have one
    requests,         \* bookSerial requests in flight: slot -> locals and position
    response,         \* response of the last handler that runs in one step
    serialsResponse   \* response of the last getAvailableSerials

vars == <<doctors, hospitals, approvals, serialSettings, chambers, appointments,
          prescriptions, requests, response, serialsResponse>>


NoSettings ==
    [doctorId |-> NoId, hospitalId |-> NoId, totalSerialsPerDay |-> 0,
     startTime |-> <<0, 0>>, endTime |-> <<0, 0>>, appointmentPrice |-> 0,
     availableDays |-> {}, isActive |-> FALSE]

\* A request body of updateHospitalProfile with every field undefined.
NoBody ==
    [name |-> NoId, address |-> NoId, registrationNumber |-> NoId,
     departments |-> NoId]

IdleRequest ==
    [pc |-> "idle", patientId |-> NoId, doctorId |-> NoId, serialNumber |-> 0,
     date |-> 0, hospitalId |-> NoId, hospitalStatus |-> NoId,
     settings |-> NoSettings, chamberId |-> 0, body |-> NoBody,
     result |-> "none"]

NoResponse == [op |-> "none", code |-> 0]

NoSerialsResponse ==
    [code |-> 0, error |-> "none", doctorId |-> NoId, date |-> 0,
     availableSerials |-> << >>]

\* -------------------------------------------------------------- collections

\* findOne returns the first stored document that matches.
Lowest(S) == CHOOSE i \in S : \A j \in S : i <= j

\* The query without its status filter.
BookedAppointments_AnyStatus(doctorId, date) ==
    {i \in 1..Len(appointments) :
        /\ appointments[i].doctorId = doctorId
        /\ appointments[i].date = date}

\* Appointment.find({doctorId, appointmentDate within the day of date,
\* status: {$in: ['pending','accepted']}})
BookedAppointments(doctorId, date) ==
    {i \in 1..Len(appointments) :
        /\ appointments[i].doctorId = doctorId
        /\ appointments[i].date = date
        /\ appointments[i].status \in ActiveStatuses}

\* SerialSettings.findOne({doctorId, hospitalId, isActive: true}); NoSettings
\* stands for null.
FindActiveSettings(doctorId, hospitalId) ==
    LET hits == {i \in 1..Len(serialSettings) :
                    /\ serialSettings[i].doctorId = doctorId
                    /\ serialSettings[i].hospitalId = hospitalId
                    /\ serialSettings[i].isActive}
    IN  IF hits = {} THEN NoSettings ELSE serialSettings[Lowest(hits)]

\* The settings both serial handlers select: the hospital's when the doctor's
\* hospital was found and is approved, the individual doctor's otherwise.
SelectSettings(doctorId, hospitalId, hospitalStatus) ==
    IF hospitalId # NoId /\ hospitalStatus = "approved"
    THEN FindActiveSettings(doctorId, hospitalId)
    ELSE FindActiveSettings(doctorId, NoId)

\* The check without that of the length of availableDays.
DayNotAllowed_EmptyList(settings, date) ==
    DayOfWeek(date) \notin settings.availableDays

\* availableDays non-empty and without the weekday of the date.
DayNotAllowed(settings, date) ==
    /\ settings.availableDays # {}
    /\ DayOfWeek(date) \notin settings.availableDays

\* ------------------------------------------------------ getAvailableSerials

\* The start times of the pending and accepted appointments of every date.
BookedTimes_AnyDate(doctorId, date) ==
    {appointments[i].startTime : i \in
        UNION {BookedAppointments(doctorId, other) : other \in {1, 2}}}

\* timeSlot.startTime of the pending and accepted appointments of the day.
BookedTimes(doctorId, date) ==
    {appointments[i].startTime : i \in BookedAppointments(doctorId, date)}

\* for (let i = 1; i <= totalSerials; i++): the even serials whose start time
\* is not among the booked times, in the order the loop pushes them.
RECURSIVE SerialsLoop(_, _, _, _)
SerialsLoop(settings, bookedTimes, i, acc) ==
    IF i > settings.totalSerialsPerDay THEN acc
    ELSE IF i % 2 = 0 /\ SerialStartTime(settings, i) \notin bookedTimes
         THEN SerialsLoop(settings, bookedTimes, i + 1,
                  Append(acc, [serialNumber |-> i,
                               time |-> SerialStartTime(settings, i),
                               endTime |-> SerialEndTime(settings, i)]))
         ELSE SerialsLoop(settings, bookedTimes, i + 1, acc)

AvailableSerialsOf(settings, bookedTimes) ==
    SerialsLoop(settings, bookedTimes, 1, << >>)

\* The response of getAvailableSerials(doctorId, date) in the current state.
GetAvailableSerials(doctorId, date) ==
    LET found == doctorId \in DoctorIds /\ doctors[doctorId].exists
        hid == IF found THEN doctors[doctorId].hospitalId ELSE NoId
        hospitalFound == hid # NoId /\ hospitals[hid].exists
        settings == SelectSettings(doctorId,
                        IF hospitalFound THEN hid ELSE NoId,
                        IF hospitalFound THEN hospitals[hid].status ELSE NoId)
        fail(code, error) ==
            [code |-> code, error |-> error, doctorId |-> doctorId, date |-> date,
             availableSerials |-> << >>]
    IN  IF ~found \/ doctors[doctorId].status # "approved"
            THEN fail(404, "Doctor not found or not available")
        ELSE IF settings = NoSettings
            THEN fail(404, "Serial settings not found for this doctor")
        ELSE IF DayNotAllowed(settings, date)
            THEN fail(200, "No serials available on this day")
        ELSE [code |-> 200, error |-> "none", doctorId |-> doctorId, date |-> date,
              availableSerials |->
                  AvailableSerialsOf(settings, BookedTimes(doctorId, date))]

GetAvailableSerialsRequest(doctorId, date) ==
    /\ serialsResponse' = GetAvailableSerials(doctorId, date)
    /\ UNCHANGED <<doctors, hospitals, approvals, serialSettings, chambers,
                   appointments, prescriptions, requests, response>>

\* --------------------------------------------------------------- bookSerial

NewAppointment(patientId, doctorId, chamberId, date, startTime, endTime, fee, notes) ==
    [patientId |-> patientId, doctorId |-> doctorId, chamberId |-> chamberId,
     date |-> date, startTime |-> startTime, endTime |-> endTime, fee |-> fee,
     status |-> "pending", notes |-> notes, cancelledBy |-> NoId,
     cancellationReason |-> NoId, prescription |-> FALSE]

InFlight == {r \in RequestSlots : requests[r].pc \notin {"idle", "done"}}

\* Room in the bounded Appointment collection for one more booking.
HasRoom == Len(appointments) + Cardinality(InFlight) < MaxAppointments

\* The handler returns: its locals are gone, the request and its response stay.
Finish(r, result) ==
    requests' = [requests EXCEPT ![r] =
        [IdleRequest EXCEPT !.pc = "done", !.doctorId = requests[r].doctorId,
            !.serialNumber = requests[r].serialNumber, !.date = requests[r].date,
            !.result = result]]

\* Only the latest response is kept: that of a bookSerial request which
\* returns replaces the response of the handlers that run in one step.
Responds(r) ==
    response' = IF requests'[r].pc = "done" THEN NoResponse ELSE response

\* Request validation, the parity check and Doctor.findById.
BookSerial_Begin(r, patientId, doctorId, serialNumber, date) ==
    /\ requests[r].pc \in {"idle", "done"}
    /\ HasRoom
    /\ LET fresh == [IdleRequest EXCEPT !.patientId = patientId,
                        !.doctorId = doctorId, !.serialNumber = serialNumber,
                        !.date = date]
           stop(result) ==
               requests' = [requests EXCEPT ![r] =
                   [fresh EXCEPT !.pc = "done", !.patientId = NoId,
                                 !.result = result]]
       IN  IF serialNumber < 1
               THEN stop("400 Validation failed")
           ELSE IF serialNumber % 2 # 0
               THEN stop("400 Only even-numbered serials can be booked online")
           ELSE IF \/ doctorId \notin DoctorIds
                   \/ ~doctors[doctorId].exists
                   \/ doctors[doctorId].status # "approved"
               THEN stop("404 Doctor not found or not available")
           ELSE requests' = [requests EXCEPT ![r] =
                   [fresh EXCEPT !.pc = IF doctors[doctorId].hospitalId # NoId
                                        THEN "hospital" ELSE "settings"]]
    /\ Responds(r)
    /\ UNCHANGED <<doctors, hospitals, approvals, serialSettings, chambers,
                   appointments, prescriptions, serialsResponse>>

\* Hospital.findById(doctor.hospitalId)
BookSerial_Hospital(r) ==
    /\ requests[r].pc = "hospital"
    /\ LET hid == doctors[requests[r].doctorId].hospitalId
           found == hid # NoId /\ hospitals[hid].exists
       IN  requests' = [requests EXCEPT
               ![r].pc = "settings",
               ![r].hospitalId = IF found THEN hid ELSE NoId,
               ![r].hospitalStatus = IF found THEN hospitals[hid].status ELSE NoId]
    /\ Responds(r)
    /\ UNCHANGED <<doctors, hospitals, approvals, serialSettings, chambers,
                   appointments, prescriptions, serialsResponse>>

\* The range check without its upper limit.
SerialOutOfRange_NoUpperLimit(serialNumber, settings) ==
    serialNumber < 1

\* serialNumber < 1 || serialNumber > serialSettings.totalSerialsPerDay
SerialOutOfRange(serialNumber, settings) ==
    serialNumber < 1 \/ serialNumber > settings.totalSerialsPerDay

\* SerialSettings.findOne, the weekday check and the range check.
BookSerial_Settings(r) ==
    /\ requests[r].pc = "settings"
    /\ LET q == requests[r]
           settings == SelectSettings(q.doctorId, q.hospitalId, q.hospitalStatus)
       IN  IF settings = NoSettings
               THEN Finish(r, "404 Serial settings not found for this doctor")
           ELSE IF DayNotAllowed(settings, q.date)
               THEN Finish(r, "400 Serials are not available on this day")
           ELSE IF SerialOutOfRange(q.serialNumber, settings)
               THEN Finish(r, "400 Invalid serial number")
           ELSE requests' = [requests EXCEPT ![r].pc = "existing",
                                             ![r].settings = settings]
    /\ Responds(r)
    /\ UNCHANGED <<doctors, hospitals, approvals, serialSettings, chambers,
                   appointments, prescriptions, serialsResponse>>

\* The query with status 'pending' in place of the two statuses.
ExistingAppointment_PendingOnly(doctorId, date, startTime) ==
    \E i \in 1..Len(appointments) :
        /\ appointments[i].doctorId = doctorId
        /\ appointments[i].date = date
        /\ appointments[i].startTime = startTime
        /\ appointments[i].status = "pending"

\* Appointment.findOne({doctorId, date, 'timeSlot.startTime': startTime,
\* status: {$in: ['pending','accepted']}})
ExistingAppointment(doctorId, date, startTime) ==
    \E i \in BookedAppointments(doctorId, date) : appointments[i].startTime = startTime

BookSerial_Existing(r) ==
    /\ requests[r].pc = "existing"
    /\ LET q == requests[r]
       IN  IF ExistingAppointment(q.doctorId, q.date,
                                  SerialStartTime(q.settings, q.serialNumber))
               THEN Finish(r, "400 This serial is already booked")
           ELSE requests' = [requests EXCEPT ![r].pc = "chamber"]
    /\ Responds(r)
    /\ UNCHANGED <<doctors, hospitals, approvals, serialSettings, chambers,
                   appointments, prescriptions, serialsResponse>>

\* Chamber.findOne({doctorId, isActive: true}); 0 stands for null.
FindChamber(doctorId) ==
    LET hits == {i \in 1..Len(chambers) :
                    chambers[i].doctorId = doctorId /\ chambers[i].isActive}
    IN  IF hits = {} THEN 0 ELSE Lowest(hits)

BookSerial_Chamber(r) ==
    /\ requests[r].pc = "chamber"
    /\ LET c == FindChamber(requests[r].doctorId)
       IN  requests' = [requests EXCEPT
               ![r].pc = IF c = 0 THEN "chamberCreate" ELSE "create",
               ![r].chamberId = c]
    /\ Responds(r)
    /\ UNCHANGED <<doctors, hospitals, approvals, serialSettings, chambers,
                   appointments, prescriptions, serialsResponse>>

\* Chamber.create of the default chamber.
BookSerial_ChamberCreate(r) ==
    /\ requests[r].pc = "chamberCreate"
    /\ LET q == requests[r]
       IN  /\ chambers' = Append(chambers,
                  [doctorId |-> q.doctorId, hospitalId |-> q.hospitalId,
                   consultationFee |-> q.settings.appointmentPrice,
                   followUpFee |-> q.settings.appointmentPrice,
                   isActive |-> TRUE])
           /\ requests' = [requests EXCEPT ![r].pc = "create",
                                           ![r].chamberId = Len(chambers) + 1]
    /\ UNCHANGED <<doctors, hospitals, approvals, serialSettings,
                   appointments, prescriptions, response, serialsResponse>>

\* Appointment.create
BookSerial_Create(r) ==
    /\ requests[r].pc = "create"
    /\ LET q == requests[r]
       IN  appointments' = Append(appointments,
               NewAppointment(q.patientId, q.doctorId, q.chamberId, q.date,
                   SerialStartTime(q.settings, q.serialNumber),
                   SerialEndTime(q.settings, q.serialNumber),
                   q.settings.appointmentPrice, q.serialNumber))
    /\ requests' = [requests EXCEPT ![r].pc = "notify"]
    /\ UNCHANGED <<doctors, hospitals, approvals, serialSettings, chambers,
                   prescriptions, response, serialsResponse>>

\* The catch block removing the appointment it created.
BookSerial_Notify_RollsBack(r) ==
    /\ requests[r].pc = "notify"
    /\ \E delivered \in BOOLEAN :
           /\ Finish(r, IF delivered THEN "201 Serial booked successfully"
                                     ELSE "500 Failed to book serial")
           /\ appointments' = IF delivered THEN appointments
                               ELSE SubSeq(appointments, 1, Len(appointments) - 1)
    /\ Responds(r)
    /\ UNCHANGED <<doctors, hospitals, approvals, serialSettings, chambers,
                   prescriptions, serialsResponse>>

\* The awaited createAndSendNotification calls and the response; a rejected
\* notification reaches the catch block.
BookSerial_Notify(r) ==
    /\ requests[r].pc = "notify"
    /\ \E delivered \in BOOLEAN :
           Finish(r, IF delivered THEN "201 Serial booked successfully"
                                  ELSE "500 Failed to book serial")
    /\ Responds(r)
    /\ UNCHANGED <<doctors, hospitals, approvals, serialSettings, chambers,
                   appointments, prescriptions, serialsResponse>>

\* ---------------------------------------------------------- bookAppointment

\* lockSlot of utils/slotGenerator.util.js: the slot is free when no pending
\* or accepted appointment of the doctor on the date starts at startTime.
LockSlot(doctorId, chamberId, date, startTime, endTime) ==
    ~ExistingAppointment(doctorId, date, startTime)

\* Only the latest response is kept: the response of a handler that runs in
\* one step replaces those of the finished bookSerial requests.
Respond(op, code) ==
    /\ response' = [op |-> op, code |-> code]
    /\ requests' = [r \in RequestSlots |->
                       IF requests[r].pc = "done" THEN IdleRequest ELSE requests[r]]

\* The fee without the choice by consultationType.
ChamberFee_ConsultationOnly(chamber, consultationType) ==
    chamber.consultationFee

\* consultationType === 'follow_up' ? chamber.followUpFee : chamber.consultationFee
ChamberFee(chamber, consultationType) ==
    IF consultationType = "follow_up"
    THEN chamber.followUpFee
    ELSE chamber.consultationFee

BookAppointment(patientId, doctorId, chamberId, date, startTime, endTime, consultationType) ==
    /\ HasRoom
    /\ IF ~LockSlot(doctorId, chamberId, date, startTime, endTime)
           THEN /\ Respond("bookAppointment", 400)
                /\ UNCHANGED appointments
       ELSE IF chamberId \notin 1..Len(chambers)
           THEN /\ Respond("bookAppointment", 404)
                /\ UNCHANGED appointments
       ELSE /\ appointments' = Append(appointments,
                   NewAppointment(patientId, doctorId, chamberId, date,
                       startTime, endTime,
                       ChamberFee(chambers[chamberId], consultationType), 0))
            /\ \E delivered \in BOOLEAN :
                   Respond("bookAppointment", IF delivered THEN 201 ELSE 500)
    /\ UNCHANGED <<doctors, hospitals, approvals, serialSettings, chambers,
                   prescriptions, serialsResponse>>

\* -------------------------------------------------------- cancelAppointment

\* The query without its patientId filter.
PatientAppointmentFound_AnyPatient(appointmentId, patientId) ==
    appointmentId \in 1..Len(appointments)

\* Appointment.findOne({_id: appointmentId, patientId: req.user._id}) finds a
\* document.
PatientAppointmentFound(appointmentId, patientId) ==
    /\ appointmentId \in 1..Len(appointments)
    /\ appointments[appointmentId].patientId = patientId

\* The list without 'cancelled'.
NotCancellable_Finished == {"completed", "no_show"}

\* ['cancelled', 'completed', 'no_show']
NotCancellable == {"cancelled", "completed", "no_show"}

CancelAppointment(patientId, appointmentId, reason) ==
    /\ IF ~PatientAppointmentFound(appointmentId, patientId)
           THEN /\ Respond("cancelAppointment", 404)
                /\ UNCHANGED appointments
       ELSE IF appointments[appointmentId].status \in NotCancellable
           THEN /\ Respond("cancelAppointment", 400)
                /\ UNCHANGED appointments
       ELSE /\ appointments' = [appointments EXCEPT
                   ![appointmentId].status = "cancelled",
                   ![appointmentId].cancelledBy = "patient",
                   ![appointmentId].cancellationReason = reason]
            /\ \E delivered \in BOOLEAN :
                   Respond("cancelAppointment", IF delivered THEN 200 ELSE 500)
    /\ UNCHANGED <<doctors, hospitals, approvals, serialSettings, chambers,
                   prescriptions, serialsResponse>>

\* -------------------------------------------------- updateAppointmentStatus

\* The caller's Doctor document, Doctor.findById(req.user._id).
DoctorProfileFound(callerId) ==
    callerId \in DoctorIds /\ doctors[callerId].exists

UpdateAppointmentStatus(callerId, appointmentId, status, notes) ==
    /\ IF ~DoctorProfileFound(callerId)
           THEN /\ Respond("updateAppointmentStatus", 404)
                /\ UNCHANGED appointments
       ELSE IF \/ appointmentId \notin 1..Len(appointments)
               \/ appointments[appointmentId].doctorId # callerId
           THEN /\ Respond("updateAppointmentStatus", 404)
                /\ UNCHANGED appointments
       ELSE /\ appointments' = [appointments EXCEPT
                   ![appointmentId].status = status,
                   ![appointmentId].notes =
                       IF notes # 0 THEN notes ELSE appointments[appointmentId].notes]
            /\ \E delivered \in BOOLEAN :
                   Respond("updateAppointmentStatus",
                           IF delivered THEN 200 ELSE 500)
    /\ UNCHANGED <<doctors, hospitals, approvals, serialSettings, chambers,
                   prescriptions, serialsResponse>>

\* ------------------------------------------------------- createPrescription

\* The statuses of the query with 'pending' among them.
PrescribableStatuses_WithPending == {"pending", "accepted", "completed"}

\* status: { $in: ['accepted', 'completed'] }
PrescribableStatuses == {"accepted", "completed"}

CreatePrescription(callerId, appointmentId) ==
    /\ IF ~DoctorProfileFound(callerId)
           THEN /\ Respond("createPrescription", 404)
                /\ UNCHANGED <<appointments, prescriptions>>
       ELSE IF \/ appointmentId \notin 1..Len(appointments)
               \/ appointments[appointmentId].doctorId # callerId
               \/ appointments[appointmentId].status \notin PrescribableStatuses
           THEN /\ Respond("createPrescription", 404)
                /\ UNCHANGED <<appointments, prescriptions>>
       ELSE /\ IF appointmentId \in prescriptions
                   THEN UNCHANGED <<appointments, prescriptions>>
                   ELSE /\ prescriptions' = prescriptions \cup {appointmentId}
                        /\ appointments' = [appointments EXCEPT
                               ![appointmentId].prescription = TRUE,
                               ![appointmentId].status = "completed"]
            \* generatePrescriptionPDF and the notification may reject
            /\ \E delivered \in BOOLEAN :
                   Respond("createPrescription",
                           IF delivered THEN 201 ELSE 500)
    /\ UNCHANGED <<doctors, hospitals, approvals, serialSettings, chambers,
                   serialsResponse>>

\* ------------------------------------------------------------ booking states

Dates == {1, 2}

Settings(doctorId, hospitalId, total, startTime, endTime, price, days) ==
    [doctorId |-> doctorId, hospitalId |-> hospitalId,
     totalSerialsPerDay |-> total, startTime |-> startTime, endTime |-> endTime,
     appointmentPrice |-> price, availableDays |-> days, isActive |-> TRUE]

\* Policies createOrUpdateSerialSettings accepts for doctor d1 of hospital h1:
\* ten-minute serials, serials on weekday 2 only, and a range shorter than
\* the number of serials (endTime after startTime is all that is required).
InitPolicies ==
    {Settings("d1", "h1", PolicySerials, <<9, 0>>, <<9, 40>>, 500, {}),
     Settings("d1", "h1", PolicySerials, <<9, 0>>, <<9, 40>>, 500, {2}),
     Settings("d1", "h1", PolicySerials, <<9, 0>>, <<9, 2>>, 500, {})}

InitChamber ==
    [doctorId |-> "d1", hospitalId |-> "h1", consultationFee |-> 800,
     followUpFee |-> 400, isActive |-> TRUE]

SerialNumbers == 0..(PolicySerials + ExtraSerials)

\* d1 is an approved doctor of the approved hospital h1; d2 registered as an
\* individual doctor and still waits for the platform's approval.
InitDoctors ==
    [d \in DoctorIds |->
        IF d = "d1"
        THEN [exists |-> TRUE, status |-> "approved", hospitalId |-> "h1",
              userId |-> NoId]
        ELSE [exists |-> TRUE, status |-> "pending_super_admin", hospitalId |-> NoId,
              userId |-> NoId]]

InitHospitals ==
    [h \in HospitalIds |->
        [exists |-> TRUE, status |-> "approved", admins |-> HospitalAdmins,
         associatedDoctors |-> <<"d1">>, name |-> "name0", address |-> "address0",
         registrationNumber |-> "reg0", departments |-> "departments0"]]

InitBooking ==
    /\ doctors = InitDoctors
    /\ hospitals = InitHospitals
    /\ approvals = << >>
    /\ \E policy \in InitPolicies : serialSettings = <<policy>>
    /\ chambers \in {<< >>, <<InitChamber>>}
    /\ appointments = << >>
    /\ prescriptions = {}
    /\ requests = [r \in RequestSlots |-> IdleRequest]
    /\ response = NoResponse
    /\ serialsResponse = NoSerialsResponse

\* A new request of slot r.
BookSerial_Request(r, patients, doctorIds, serialNumbers, dates) ==
    \E p \in patients, d \in doctorIds, s \in serialNumbers, date \in dates :
        BookSerial_Begin(r, p, d, s, date)

\* The request of slot r goes on after an await.
BookSerial_Resume(r) ==
    \/ BookSerial_Hospital(r)
    \/ BookSerial_Settings(r)
    \/ BookSerial_Existing(r)
    \/ BookSerial_Chamber(r)
    \/ BookSerial_ChamberCreate(r)
    \/ BookSerial_Create(r)
    \/ BookSerial_Notify(r)

\* Booking: one bookSerial request at a time, interleaved with the handlers
\* that book, cancel, accept and reject in one step, on one date.
NextBooking ==
    \/ BookSerial_Request(1, PatientIds, DoctorIds, {2, 3}, {1})
    \/ BookSerial_Resume(1)
    \/ \E d \in DoctorIds \cup {UnknownDoctor}, c \in 1..2 :
           BookAppointment("p1", d, c, 1, <<9, 0>>, <<9, 15>>, "new")
    \/ \E p \in PatientIds, id \in 1..MaxAppointments :
           CancelAppointment(p, id, "reason")
    \/ \E id \in 1..MaxAppointments, status \in {"accepted", "rejected"} :
           UpdateAppointmentStatus("d1", id, status, 0)

Spec == InitBooking /\ [][NextBooking]_vars

\* Doctors bookAppointment is called for in the calls of one patient.
NotifiedDoctors == {"d1", "d2"}

\* Patient p1 books serial 2 and a slot, both patients cancel, doctor d1
\* accepts and rejects: every handler that stores a change and notifies
\* afterwards.
NextNotified ==
    \/ BookSerial_Request(1, {"p1"}, {"d1"}, {2}, {1})
    \/ BookSerial_Resume(1)
    \/ \E d \in NotifiedDoctors :
           BookAppointment("p1", d, 1, 1, <<9, 0>>, <<9, 15>>, "new")
    \/ \E p \in PatientIds, id \in 1..MaxAppointments :
           CancelAppointment(p, id, "reason")
    \/ \E id \in 1..MaxAppointments, status \in {"accepted", "rejected"} :
           UpdateAppointmentStatus("d1", id, status, 0)

SpecNotified == InitBooking /\ [][NextNotified]_vars

\* Two bookSerial requests, of patient p1 and of patient p2, each sent once
\* and running concurrently or one after the other.
NextConcurrent ==
    \/ /\ requests[1].pc = "idle"
       /\ BookSerial_Request(1, {"p1"}, {"d1"}, SerialNumbers, Dates)
    \/ /\ requests[2].pc = "idle"
       /\ BookSerial_Request(2, {"p2"}, {"d1"}, SerialNumbers, Dates)
    \/ \E r \in RequestSlots : BookSerial_Resume(r)

SpecConcurrent == InitBooking /\ [][NextConcurrent]_vars

\* ---------------------------------------------------------- lifecycle states

RegularPolicy == Settings("d1", "h1", PolicySerials, <<9, 0>>, <<9, 40>>, 500, {})

\* Two stored appointments, as the booking handlers create them: serial 2 of
\* d1 booked by p1 with bookSerial and accepted by the doctor, a slot of d2
\* booked by p2 with bookAppointment and still pending.
LifecycleAppointments ==
    <<[NewAppointment("p1", "d1", 1, 1, SerialStartTime(RegularPolicy, 2),
          SerialEndTime(RegularPolicy, 2), RegularPolicy.appointmentPrice, 2)
          EXCEPT !.status = "accepted"],
      NewAppointment("p2", "d2", 1, 1, <<9, 0>>, <<9, 15>>,
          InitChamber.consultationFee, 0)>>

InitLifecycle ==
    /\ doctors = InitDoctors
    /\ hospitals = InitHospitals
    /\ approvals = << >>
    /\ serialSettings = <<RegularPolicy>>
    /\ chambers = <<InitChamber>>
    /\ appointments = LifecycleAppointments
    /\ prescriptions = {}
    /\ requests = [r \in RequestSlots |-> IdleRequest]
    /\ response = NoResponse
    /\ serialsResponse = NoSerialsResponse

\* _id values a request may name: those stored and one that is not.
LifecycleIds == 1..(Len(LifecycleAppointments) + 1)

\* The patient, the doctor and the prescribing doctor act on the stored
\* appointments, with every input the handlers accept.
NextLifecycle ==
    \/ \E p \in PatientIds, id \in LifecycleIds, reason \in {NoId, "reason"} :
           CancelAppointment(p, id, reason)
    \/ \E d \in DoctorIds \cup {UnknownDoctor}, id \in LifecycleIds,
          status \in AppointmentStatuses, notes \in {0, -1} :
           UpdateAppointmentStatus(d, id, status, notes)
    \/ \E d \in DoctorIds \cup {UnknownDoctor}, id \in LifecycleIds :
           CreatePrescription(d, id)

SpecLifecycle == InitLifecycle /\ [][NextLifecycle]_vars

\* Statuses the doctors ask for in the calls of either party.
PartyStatuses == {"accepted", "completed"}

\* Both patients and every doctor call on every stored appointment: the
\* patients cancel with a reason, the doctors accept, complete and prescribe.
NextParties ==
    \/ \E p \in PatientIds, id \in LifecycleIds :
           CancelAppointment(p, id, "reason")
    \/ \E d \in DoctorIds \cup {UnknownDoctor}, id \in LifecycleIds,
          status \in PartyStatuses :
           UpdateAppointmentStatus(d, id, status, 0)
    \/ \E d \in DoctorIds \cup {UnknownDoctor}, id \in LifecycleIds :
           CreatePrescription(d, id)

SpecParties == InitLifecycle /\ [][NextParties]_vars

\* ------------------------------------------------------- availability states

\* The policy createOrUpdateSerialSettings stores when the request names none.
DefaultSerials == 20

DefaultPolicy == Settings("d1", "h1", DefaultSerials, <<9, 0>>, <<17, 0>>, 500, {})

AvailabilityPolicies == InitPolicies \cup {DefaultPolicy}

\* Appointments found in the store when availability is asked for.
StoredAppointments(policy) ==
    {[NewAppointment("p1", d, 1, date, SerialStartTime(policy, i),
          SerialEndTime(policy, i), policy.appointmentPrice, i)
        EXCEPT !.status = status] :
        d \in DoctorIds, date \in Dates, i \in {2, 4},
        status \in {"pending", "accepted", "cancelled"}}

InitAvailability ==
    /\ doctors = InitDoctors
    /\ hospitals = InitHospitals
    /\ approvals = << >>
    /\ \E policy \in AvailabilityPolicies :
           /\ serialSettings = <<policy>>
           /\ \E n \in 0..MaxAppointments :
                  appointments \in [1..n -> StoredAppointments(policy)]
    /\ chambers = <<InitChamber>>
    /\ prescriptions = {}
    /\ requests = [r \in RequestSlots |-> IdleRequest]
    /\ response = NoResponse
    /\ serialsResponse = NoSerialsResponse

NextAvailability ==
    \E d \in DoctorIds \cup {UnknownDoctor}, date \in Dates :
        GetAvailableSerialsRequest(d, date)

SpecAvailability == InitAvailability /\ [][NextAvailability]_vars

\* --------------------------------------------------------- approval lifecycle

\* Callers of the hospital routes: a1 becomes the admin of the hospital it
\* registers, a2 administers nothing.
HospitalCallers == HospitalAdmins \cup {"a2"}

NoDoctor == [exists |-> FALSE, status |-> NoId, hospitalId |-> NoId, userId |-> NoId]

NoHospital ==
    [exists |-> FALSE, status |-> NoId, admins |-> {}, associatedDoctors |-> << >>,
     name |-> NoId, address |-> NoId, registrationNumber |-> NoId,
     departments |-> NoId]

Approval(actorId, actorRole, targetType, targetId, action, previousStatus, newStatus) ==
    [actorId |-> actorId, actorRole |-> actorRole, targetType |-> targetType,
     targetId |-> targetId, action |-> action, previousStatus |-> previousStatus,
     newStatus |-> newStatus]

\* logApproval: Approval.create inside try/catch; a failed create is logged to
\* the console and the caller goes on.
logApproval(entry) ==
    \E created \in BOOLEAN :
        approvals' = IF created THEN Append(approvals, entry) ELSE approvals

\* Room in the bounded Approval collection.
CanLog == Len(approvals) < MaxApprovals

\* registerHospital: the admin's User and the Hospital are created, then the
\* registration is logged.
registerHospital(adminId, hospitalId) ==
    /\ CanLog
    /\ IF hospitals[hospitalId].exists
           THEN /\ Respond("registerHospital", 400)
                /\ UNCHANGED <<hospitals, approvals>>
       ELSE /\ hospitals' = [hospitals EXCEPT ![hospitalId] =
                   [exists |-> TRUE, status |-> "pending_super_admin",
                    admins |-> {adminId}, associatedDoctors |-> << >>,
                    name |-> "name0", address |-> "address0",
                    registrationNumber |-> "reg0",
                    departments |-> "departments0"]]
            /\ logApproval(Approval(adminId, "hospital_admin", "hospital",
                   hospitalId, "register", NoId, "pending_super_admin"))
            /\ Respond("registerHospital", 201)
    /\ UNCHANGED <<doctors, serialSettings, chambers, appointments, prescriptions,
                   serialsResponse>>

\* The checks without that of the requester.
addDoctorForbidden_StatusOnly(callerId, hospitalId) ==
    hospitals[hospitalId].status # "approved"

\* hospital.status !== 'approved', then !hospital.admins.includes(req.user._id):
\* both answer 403.
addDoctorForbidden(callerId, hospitalId) ==
    \/ hospitals[hospitalId].status # "approved"
    \/ callerId \notin hospitals[hospitalId].admins

addDoctorByHospital(callerId, hospitalId, doctorId) ==
    /\ CanLog
    /\ IF ~hospitals[hospitalId].exists
           THEN /\ Respond("addDoctorByHospital", 404)
                /\ UNCHANGED <<doctors, hospitals, approvals>>
       ELSE IF addDoctorForbidden(callerId, hospitalId)
           THEN /\ Respond("addDoctorByHospital", 403)
                /\ UNCHANGED <<doctors, hospitals, approvals>>
       ELSE IF doctors[doctorId].exists
           THEN /\ Respond("addDoctorByHospital", 400)
                /\ UNCHANGED <<doctors, hospitals, approvals>>
       ELSE /\ doctors' = [doctors EXCEPT ![doctorId] =
                   [exists |-> TRUE, status |-> "approved",
                    hospitalId |-> hospitalId, userId |-> NoId]]
            /\ hospitals' = [hospitals EXCEPT ![hospitalId].associatedDoctors =
                   Append(@, doctorId)]
            /\ logApproval(Approval(callerId, "hospital_admin", "doctor", doctorId,
                   "approve", NoId, "approved"))
            /\ Respond("addDoctorByHospital", 201)
    /\ UNCHANGED <<serialSettings, chambers, appointments, prescriptions,
                   serialsResponse>>

\* The list with 'rejected' added.
ApprovableStatuses_WithRejected ==
    {"pending_hospital", "pending_hospital_and_super_admin", "rejected"}

\* ['pending_hospital', 'pending_hospital_and_super_admin'].includes(doctor.status)
ApprovableStatuses == {"pending_hospital", "pending_hospital_and_super_admin"}

approveDoctorByHospital(callerId, hospitalId, doctorId) ==
    /\ CanLog
    /\ IF ~hospitals[hospitalId].exists
           THEN /\ Respond("approveDoctorByHospital", 404)
                /\ UNCHANGED <<doctors, approvals>>
       ELSE IF hospitals[hospitalId].status # "approved"
                   \/ callerId \notin hospitals[hospitalId].admins
           THEN /\ Respond("approveDoctorByHospital", 403)
                /\ UNCHANGED <<doctors, approvals>>
       ELSE IF ~doctors[doctorId].exists
           THEN /\ Respond("approveDoctorByHospital", 404)
                /\ UNCHANGED <<doctors, approvals>>
       ELSE IF doctors[doctorId].hospitalId # hospitalId
                   \/ doctors[doctorId].status \notin ApprovableStatuses
                   \/ (/\ doctors[doctorId].status = "pending_hospital_and_super_admin"
                       /\ hospitals[hospitalId].status # "approved")
           THEN /\ Respond("approveDoctorByHospital", 400)
                /\ UNCHANGED <<doctors, approvals>>
       ELSE /\ doctors' = [doctors EXCEPT ![doctorId].status = "approved"]
            /\ logApproval(Approval(callerId, "hospital_admin", "doctor", doctorId,
                   "approve", doctors[doctorId].status, "approved"))
            /\ Respond("approveDoctorByHospital", 200)
    /\ UNCHANGED <<hospitals, serialSettings, chambers, appointments, prescriptions,
                   serialsResponse>>

\* onboardDoctor, the legacy registration of a doctor profile by a user.
onboardDoctor(doctorId) ==
    /\ IF doctors[doctorId].exists
           THEN /\ Respond("onboardDoctor", 400)
                /\ UNCHANGED doctors
       ELSE /\ doctors' = [doctors EXCEPT ![doctorId] =
                   [exists |-> TRUE, status |-> "pending_verification",
                    hospitalId |-> NoId, userId |-> doctorId]]
            /\ Respond("onboardDoctor", 201)
    /\ UNCHANGED <<hospitals, approvals, serialSettings, chambers, appointments,
                   prescriptions, serialsResponse>>

\* verifyDoctor: the status is set on the loaded document, the doctor's user
\* is notified, and only then the document is saved; a rejected notification
\* reaches the catch block before the save.
verifyDoctor(doctorId, action) ==
    /\ IF ~doctors[doctorId].exists
           THEN /\ Respond("verifyDoctor", 404)
                /\ UNCHANGED doctors
       ELSE \E delivered \in BOOLEAN :
                IF action \in {"approve", "reject"} /\ doctors[doctorId].userId # NoId
                       /\ ~delivered
                THEN /\ Respond("verifyDoctor", 500)
                     /\ UNCHANGED doctors
                ELSE /\ doctors' = [doctors EXCEPT ![doctorId].status =
                            CASE action = "approve" -> "active"
                              [] action = "reject" -> "rejected"
                              [] OTHER -> @]
                     /\ Respond("verifyDoctor", 200)
    /\ UNCHANGED <<hospitals, approvals, serialSettings, chambers, appointments,
                   prescriptions, serialsResponse>>

\* verifyHospital: as verifyDoctor; registerHospital gives every hospital a
\* user.
verifyHospital(hospitalId, action) ==
    /\ IF ~hospitals[hospitalId].exists
           THEN /\ Respond("verifyHospital", 404)
                /\ UNCHANGED hospitals
       ELSE \E delivered \in BOOLEAN :
                IF action \in {"approve", "reject"} /\ ~delivered
                THEN /\ Respond("verifyHospital", 500)
                     /\ UNCHANGED hospitals
                ELSE /\ hospitals' = [hospitals EXCEPT ![hospitalId].status =
                            CASE action = "approve" -> "active"
                              [] action = "reject" -> "rejected"
                              [] OTHER -> @]
                     /\ Respond("verifyHospital", 200)
    /\ UNCHANGED <<doctors, approvals, serialSettings, chambers, appointments,
                   prescriptions, serialsResponse>>

\* Handlers of the approval controller and of doctor self-registration.

\* The entry is written with the transition.
Log(entry) == approvals' = Append(approvals, entry)

\* A doctor registers, optionally under a hospital: both sign-offs are
\* required when the hospital is not yet approved, one otherwise.
registerDoctor(doctorId, hospitalId) ==
    /\ CanLog
    /\ IF doctors[doctorId].exists \/ (hospitalId # NoId /\ ~hospitals[hospitalId].exists)
           THEN /\ Respond("registerDoctor", 400)
                /\ UNCHANGED <<doctors, approvals>>
       ELSE LET status ==
                    IF hospitalId = NoId THEN "pending_super_admin"
                    ELSE IF hospitals[hospitalId].status = "approved"
                         THEN "pending_hospital"
                         ELSE "pending_hospital_and_super_admin"
            IN  /\ doctors' = [doctors EXCEPT ![doctorId] =
                       [exists |-> TRUE, status |-> status,
                        hospitalId |-> hospitalId, userId |-> NoId]]
                /\ Log(Approval(doctorId, "doctor", "doctor", doctorId, "register",
                       NoId, status))
                /\ Respond("registerDoctor", 201)
    /\ UNCHANGED <<hospitals, serialSettings, chambers, appointments, prescriptions,
                   serialsResponse>>

\* The platform administrator's sign-off of a doctor.
approveDoctor(adminId, doctorId) ==
    /\ CanLog
    /\ IF ~doctors[doctorId].exists
           THEN /\ Respond("approveDoctor", 404)
                /\ UNCHANGED <<doctors, approvals>>
       ELSE IF doctors[doctorId].status \notin
                   {"pending_super_admin", "pending_hospital_and_super_admin"}
           THEN /\ Respond("approveDoctor", 400)
                /\ UNCHANGED <<doctors, approvals>>
       ELSE LET status == IF doctors[doctorId].status = "pending_super_admin"
                          THEN "approved" ELSE "pending_hospital"
            IN  /\ doctors' = [doctors EXCEPT ![doctorId].status = status]
                /\ Log(Approval(adminId, "super_admin", "doctor", doctorId, "approve",
                       doctors[doctorId].status, status))
                /\ Respond("approveDoctor", 200)
    /\ UNCHANGED <<hospitals, serialSettings, chambers, appointments, prescriptions,
                   serialsResponse>>

PendingDoctorStatuses ==
    {"pending_hospital", "pending_super_admin", "pending_hospital_and_super_admin"}

rejectDoctor(adminId, doctorId) ==
    /\ CanLog
    /\ IF ~doctors[doctorId].exists
           THEN /\ Respond("rejectDoctor", 404)
                /\ UNCHANGED <<doctors, approvals>>
       ELSE IF doctors[doctorId].status \notin PendingDoctorStatuses
           THEN /\ Respond("rejectDoctor", 400)
                /\ UNCHANGED <<doctors, approvals>>
       ELSE /\ doctors' = [doctors EXCEPT ![doctorId].status = "rejected"]
            /\ Log(Approval(adminId, "super_admin", "doctor", doctorId, "reject",
                   doctors[doctorId].status, "rejected"))
            /\ Respond("rejectDoctor", 200)
    /\ UNCHANGED <<hospitals, serialSettings, chambers, appointments, prescriptions,
                   serialsResponse>>

\* The platform administrator's decision on a hospital.
decideHospital(op, adminId, hospitalId, action, status) ==
    /\ CanLog
    /\ IF ~hospitals[hospitalId].exists
           THEN /\ Respond(op, 404)
                /\ UNCHANGED <<hospitals, approvals>>
       ELSE IF hospitals[hospitalId].status # "pending_super_admin"
           THEN /\ Respond(op, 400)
                /\ UNCHANGED <<hospitals, approvals>>
       ELSE /\ hospitals' = [hospitals EXCEPT ![hospitalId].status = status]
            /\ Log(Approval(adminId, "super_admin", "hospital", hospitalId, action,
                   "pending_super_admin", status))
            /\ Respond(op, 200)
    /\ UNCHANGED <<doctors, serialSettings, chambers, appointments, prescriptions,
                   serialsResponse>>

approveHospital(adminId, hospitalId) ==
    decideHospital("approveHospital", adminId, hospitalId, "approve", "approved")

rejectHospital(adminId, hospitalId) ==
    decideHospital("rejectHospital", adminId, hospitalId, "reject", "rejected")

\* ----------------------------------------------------------- approval states

InitApproval ==
    /\ doctors = [d \in DoctorIds |-> NoDoctor]
    /\ hospitals = [h \in HospitalIds |-> NoHospital]
    /\ approvals = << >>
    /\ serialSettings = << >>
    /\ chambers = << >>
    /\ appointments = << >>
    /\ prescriptions = {}
    /\ requests = [r \in RequestSlots |-> IdleRequest]
    /\ response = NoResponse
    /\ serialsResponse = NoSerialsResponse

NextApproval ==
    \/ \E a \in HospitalAdmins, h \in HospitalIds : registerHospital(a, h)
    \/ \E a \in HospitalCallers, h \in HospitalIds, d \in DoctorIds :
           addDoctorByHospital(a, h, d)
    \/ \E a \in HospitalCallers, h \in HospitalIds, d \in DoctorIds :
           approveDoctorByHospital(a, h, d)
    \/ \E d \in DoctorIds : onboardDoctor(d)
    \/ \E d \in DoctorIds, action \in {"approve", "reject"} : verifyDoctor(d, action)
    \/ \E h \in HospitalIds, action \in {"approve", "reject"} : verifyHospital(h, action)
    \/ \E d \in DoctorIds, h \in HospitalIds \cup {NoId} : registerDoctor(d, h)
    \/ \E a \in SuperAdmins, d \in DoctorIds : approveDoctor(a, d)
    \/ \E a \in SuperAdmins, d \in DoctorIds : rejectDoctor(a, d)
    \/ \E a \in SuperAdmins, h \in HospitalIds : approveHospital(a, h)
    \/ \E a \in SuperAdmins, h \in HospitalIds : rejectHospital(a, h)

SpecApproval == InitApproval /\ [][NextApproval]_vars

\* ------------------------------------------------ createOrUpdateSerialSettings

\* SerialSettings.findOne({doctorId, hospitalId}); 0 stands for null.
FindSettings(doctorId, hospitalId) ==
    LET hits == {i \in 1..Len(serialSettings) :
                    /\ serialSettings[i].doctorId = doctorId
                    /\ serialSettings[i].hospitalId = hospitalId}
    IN  IF hits = {} THEN 0 ELSE Lowest(hits)

\* endMinutes <= startMinutes of a serialTimeRange.
RangeRejected(range) ==
    ParseMinutes(range.endTime) <= ParseMinutes(range.startTime)

\* createOrUpdateSerialSettings: body.hasTotal, body.hasRange and body.hasPrice
\* say whether the request carries totalSerialsPerDay, serialTimeRange and
\* appointmentPrice; the other fields of the body are left out of the request.  A totalSerialsPerDay
\* below the schema's minimum fails in save and reaches the catch block.
createOrUpdateSerialSettings(hospitalId, doctorId, body) ==
    /\ LET id == FindSettings(doctorId, hospitalId)
           keep == UNCHANGED serialSettings
       IN  IF ~hospitals[hospitalId].exists
               THEN Respond("createOrUpdateSerialSettings", 404) /\ keep
           ELSE IF hospitals[hospitalId].status # "approved"
               THEN Respond("createOrUpdateSerialSettings", 403) /\ keep
           ELSE IF ~doctors[doctorId].exists
               THEN Respond("createOrUpdateSerialSettings", 404) /\ keep
           ELSE IF doctors[doctorId].hospitalId # hospitalId
               THEN Respond("createOrUpdateSerialSettings", 400) /\ keep
           ELSE IF body.hasRange /\ RangeRejected(body.range)
               THEN Respond("createOrUpdateSerialSettings", 400) /\ keep
           ELSE IF body.hasTotal /\ body.total < 1 /\ id # 0
               THEN Respond("createOrUpdateSerialSettings", 500) /\ keep
           ELSE IF id # 0
               THEN /\ serialSettings' = [serialSettings EXCEPT
                           ![id].totalSerialsPerDay =
                               IF body.hasTotal THEN body.total ELSE @,
                           ![id].startTime =
                               IF body.hasRange THEN body.range.startTime ELSE @,
                           ![id].endTime =
                               IF body.hasRange THEN body.range.endTime ELSE @,
                           ![id].appointmentPrice =
                               IF body.hasPrice THEN body.price ELSE @]
                    /\ Respond("createOrUpdateSerialSettings", 200)
           ELSE /\ serialSettings' = Append(serialSettings,
                       Settings(doctorId, hospitalId,
                           IF body.hasTotal /\ body.total # 0
                               THEN body.total ELSE DefaultSerials,
                           IF body.hasRange THEN body.range.startTime ELSE <<9, 0>>,
                           IF body.hasRange THEN body.range.endTime ELSE <<17, 0>>,
                           IF body.hasPrice THEN body.price ELSE 0, {}))
                /\ Respond("createOrUpdateSerialSettings", 200)
    /\ UNCHANGED <<doctors, hospitals, approvals, chambers, appointments,
                   prescriptions, serialsResponse>>

\* ------------------------------------------------------------- policy states

\* Bodies of the settings request: nothing, a new number of serials, a number
\* below the minimum, a later range, a range that ends before it starts.
SettingsBodies ==
    {[hasTotal |-> t, total |-> n, hasRange |-> g, range |-> range,
      hasPrice |-> FALSE, price |-> 0] :
        t \in BOOLEAN, n \in {0, PolicySerials \div 2}, g \in BOOLEAN,
        range \in {[startTime |-> <<10, 0>>, endTime |-> <<10, 40>>],
                   [startTime |-> <<9, 40>>, endTime |-> <<9, 0>>]}}

\* The hospital has stored the regular policy for its doctor d1, or none yet.
InitPolicy ==
    /\ doctors = InitDoctors
    /\ hospitals = InitHospitals
    /\ approvals = << >>
    /\ serialSettings \in {<< >>, <<RegularPolicy>>}
    /\ chambers \in {<< >>, <<InitChamber>>}
    /\ appointments = << >>
    /\ prescriptions = {}
    /\ requests = [r \in RequestSlots |-> IdleRequest]
    /\ response = NoResponse
    /\ serialsResponse = NoSerialsResponse

\* bookSerial requests, one after the other, while the hospital changes the
\* policy of the doctor.
NextPolicy ==
    \/ BookSerial_Request(1, PatientIds, {"d1"}, {2, PolicySerials}, {1})
    \/ BookSerial_Resume(1)
    \/ \E h \in HospitalIds, d \in DoctorIds, body \in SettingsBodies :
           createOrUpdateSerialSettings(h, d, body)

SpecPolicy == InitPolicy /\ [][NextPolicy]_vars

\* ------------------------------------------------------ updateHospitalProfile

\* const criticalFields = ['name', 'address', 'registrationNumber']
criticalFields == {"name", "address", "registrationNumber"}

\* The check looking at the name only.
attemptingCriticalUpdate_NameOnly(body) ==
    body.name # NoId

\* criticalFields.some(field => req.body[field] !== undefined)
attemptingCriticalUpdate(body) ==
    \E field \in criticalFields : body[field] # NoId

\* The fields the handler assigns to the document it has read: departments
\* when the document says approved, name, address and departments otherwise
\* (registrationNumber is in neither list).
AssignedFields(status, body) ==
    IF status = "approved"
    THEN [NoBody EXCEPT !.departments = body.departments]
    ELSE [NoBody EXCEPT !.name = body.name, !.address = body.address,
                        !.departments = body.departments]

\* Hospital.findById and the assignments to the document in memory.
updateHospitalProfile_Find(r, hospitalId, body) ==
    /\ requests[r].pc \in {"idle", "done"}
    /\ IF ~hospitals[hospitalId].exists
           THEN Finish(r, "404 Hospital not found")
       ELSE IF /\ hospitals[hospitalId].status = "approved"
               /\ attemptingCriticalUpdate(body)
           THEN Finish(r, "403 Critical fields are read-only")
       ELSE requests' = [requests EXCEPT ![r] =
               [IdleRequest EXCEPT !.pc = "save", !.hospitalId = hospitalId,
                   !.hospitalStatus = hospitals[hospitalId].status,
                   !.body = AssignedFields(hospitals[hospitalId].status, body)]]
    /\ Responds(r)
    /\ UNCHANGED <<doctors, hospitals, approvals, serialSettings, chambers,
                   appointments, prescriptions, serialsResponse>>

\* hospital.save() writes the paths the handler assigned and no other.
updateHospitalProfile_Save(r) ==
    /\ requests[r].pc = "save"
    /\ LET q == requests[r]
           set(old, new) == IF new # NoId THEN new ELSE old
       IN  /\ hospitals' = [hospitals EXCEPT ![q.hospitalId] =
                  [@ EXCEPT !.name = set(@, q.body.name),
                            !.address = set(@, q.body.address),
                            !.departments = set(@, q.body.departments)]]
           /\ Finish(r, "200 Hospital profile updated successfully")
    /\ Responds(r)
    /\ UNCHANGED <<doctors, approvals, serialSettings, chambers, appointments,
                   prescriptions, serialsResponse>>

\* Request bodies: each field is undefined or carries a new value.
ProfileBodies ==
    [name : {NoId, "name1"}, address : {NoId, "address1"},
     registrationNumber : {NoId, "reg1"}, departments : {NoId, "departments1"}]

\* One registered hospital waits for the platform administrator.
InitProfile ==
    /\ doctors = [d \in DoctorIds |-> NoDoctor]
    /\ hospitals = [h \in HospitalIds |->
           [InitHospitals[h] EXCEPT !.status = "pending_super_admin",
                                    !.associatedDoctors = << >>]]
    /\ approvals = << >>
    /\ serialSettings = << >>
    /\ chambers = << >>
    /\ appointments = << >>
    /\ prescriptions = {}
    /\ requests = [r \in RequestSlots |-> IdleRequest]
    /\ response = NoResponse
    /\ serialsResponse = NoSerialsResponse

\* Two update requests of the hospital's administrator run concurrently with
\* the platform administrator's decisions on the hospital.
NextProfile ==
    \/ \E r \in RequestSlots, h \in HospitalIds, body \in ProfileBodies :
           updateHospitalProfile_Find(r, h, body)
    \/ \E r \in RequestSlots : updateHospitalProfile_Save(r)
    \/ \E a \in SuperAdmins, h \in HospitalIds : approveHospital(a, h)
    \/ \E h \in HospitalIds, action \in {"approve", "reject"} : verifyHospital(h, action)

SpecProfile == InitProfile /\ [][NextProfile]_vars

\* ------------------------------------------------------------- roster states

\* Doctor d1 as found in the store: not registered, or registered on their
\* own or under hospital h1 in any status of the approval workflow.
RosterDoctors ==
    {NoDoctor} \cup
    [exists : {TRUE},
     status : {"pending_hospital", "pending_hospital_and_super_admin",
               "pending_super_admin", "approved", "rejected"},
     hospitalId : {"h1", NoId}, userId : {NoId}]

\* Hospital h1 is registered by admin a1 and waits, is approved or is
\* rejected; doctor d2 is not registered.
InitRoster ==
    /\ \E doctor \in RosterDoctors :
           doctors = [d \in DoctorIds |-> IF d = "d1" THEN doctor ELSE NoDoctor]
    /\ \E status \in {"pending_super_admin", "approved", "rejected"} :
           hospitals = [h \in HospitalIds |->
               [InitHospitals[h] EXCEPT !.status = status,
                   !.associatedDoctors =
                       IF doctors["d1"].hospitalId = h /\ doctors["d1"].status = "approved"
                       THEN <<"d1">> ELSE << >>]]
    /\ approvals = << >>
    /\ serialSettings = << >>
    /\ chambers = << >>
    /\ appointments = << >>
    /\ prescriptions = {}
    /\ requests = [r \in RequestSlots |-> IdleRequest]
    /\ response = NoResponse
    /\ serialsResponse = NoSerialsResponse

\* The hospital routes for doctors, called by the hospital's admin and by a
\* caller who administers nothing, and the platform administrator's
\* verification of a doctor.
NextRoster ==
    \/ \E a \in HospitalCallers, h \in HospitalIds, d \in DoctorIds :
           addDoctorByHospital(a, h, d)
    \/ \E a \in HospitalCallers, h \in HospitalIds, d \in DoctorIds :
           approveDoctorByHospital(a, h, d)
    \/ \E d \in DoctorIds, action \in {"approve", "reject"} : verifyDoctor(d, action)

SpecRoster == InitRoster /\ [][NextRoster]_vars

\* ------------------------------- createOrUpdateSerialSettings, await by await

\* A field of the in-memory document that the handler did not modify.
NotModified == -1

\* The unique indexes of the schema reject a second document of the doctor
\* and the hospital.
DuplicateKey(doctorId, hospitalId) ==
    FindSettings(doctorId, hospitalId) # 0

\* The checks of the hospital and of the doctor, the check of the range and
\* SerialSettings.findOne; the handler then assigns the fields of the body to
\* the document it found, or prepares the document to create.  A path is
\* modified when its new value differs from the loaded one.
createOrUpdateSerialSettings_Find(r, hospitalId, doctorId, body) ==
    /\ requests[r].pc \in {"idle", "done"}
    /\ LET id == FindSettings(doctorId, hospitalId)
           fresh == [IdleRequest EXCEPT !.doctorId = doctorId,
                                        !.hospitalId = hospitalId]
           rangeModified ==
               /\ body.hasRange
               /\ \/ body.range.startTime # serialSettings[id].startTime
                  \/ body.range.endTime # serialSettings[id].endTime
       IN  IF ~hospitals[hospitalId].exists
               THEN Finish(r, "404 Hospital not found")
           ELSE IF hospitals[hospitalId].status # "approved"
               THEN Finish(r, "403 Hospital must be approved")
           ELSE IF ~doctors[doctorId].exists
               THEN Finish(r, "404 Doctor not found")
           ELSE IF doctors[doctorId].hospitalId # hospitalId
               THEN Finish(r, "400 Doctor is not associated with this hospital")
           ELSE IF body.hasRange /\ RangeRejected(body.range)
               THEN Finish(r, "400 End time must be after start time")
           ELSE IF id # 0
               THEN requests' = [requests EXCEPT ![r] =
                       [fresh EXCEPT !.pc = "settingsUpdate",
                           !.settings = [NoSettings EXCEPT
                               !.totalSerialsPerDay =
                                   IF /\ body.hasTotal
                                      /\ body.total # serialSettings[id].totalSerialsPerDay
                                   THEN body.total ELSE NotModified,
                               !.startTime =
                                   IF rangeModified THEN body.range.startTime ELSE @,
                               !.endTime =
                                   IF rangeModified THEN body.range.endTime ELSE @,
                               !.appointmentPrice =
                                   IF /\ body.hasPrice
                                      /\ body.price # serialSettings[id].appointmentPrice
                                   THEN body.price ELSE NotModified]]]
           ELSE requests' = [requests EXCEPT ![r] =
                   [fresh EXCEPT !.pc = "settingsCreate",
                       !.settings = Settings(doctorId, hospitalId,
                           IF body.hasTotal /\ body.total # 0
                               THEN body.total ELSE DefaultSerials,
                           IF body.hasRange THEN body.range.startTime ELSE <<9, 0>>,
                           IF body.hasRange THEN body.range.endTime ELSE <<17, 0>>,
                           IF body.hasPrice THEN body.price ELSE 0, {})]]
    /\ Responds(r)
    /\ UNCHANGED <<doctors, hospitals, approvals, serialSettings, chambers,
                   appointments, prescriptions, serialsResponse>>

\* serialSettings.save() of the document found: the modified paths are
\* written; a totalSerialsPerDay below the schema's minimum fails validation.
createOrUpdateSerialSettings_Save(r) ==
    /\ requests[r].pc = "settingsUpdate"
    /\ LET q == requests[r]
           id == FindSettings(q.doctorId, q.hospitalId)
           rangeModified == q.settings.endTime # <<0, 0>>
       IN  IF /\ q.settings.totalSerialsPerDay # NotModified
              /\ q.settings.totalSerialsPerDay < 1
               THEN /\ Finish(r, "500 Failed to save serial settings")
                    /\ UNCHANGED serialSettings
           ELSE /\ serialSettings' = [serialSettings EXCEPT
                       ![id].totalSerialsPerDay =
                           IF q.settings.totalSerialsPerDay # NotModified
                           THEN q.settings.totalSerialsPerDay ELSE @,
                       ![id].startTime =
                           IF rangeModified THEN q.settings.startTime ELSE @,
                       ![id].endTime =
                           IF rangeModified THEN q.settings.endTime ELSE @,
                       ![id].appointmentPrice =
                           IF q.settings.appointmentPrice # NotModified
                           THEN q.settings.appointmentPrice ELSE @]
                /\ Finish(r, "200 Serial settings saved successfully")
    /\ Responds(r)
    /\ UNCHANGED <<doctors, hospitals, approvals, chambers, appointments,
                   prescriptions, serialsResponse>>

\* SerialSettings.create of a new document.  Both unique indexes of the
\* schema are declared with sparse and partialFilterExpression together, the
\* first with $ne in its filter and with the keys of a plain index declared
\* before it: the database may refuse to build them, so a duplicate key is
\* rejected or not.
createOrUpdateSerialSettings_Create(r) ==
    /\ requests[r].pc = "settingsCreate"
    /\ LET q == requests[r]
       IN  \E indexBuilt \in BOOLEAN :
               IF indexBuilt /\ DuplicateKey(q.doctorId, q.hospitalId)
               THEN /\ Finish(r, "500 Failed to save serial settings")
                    /\ UNCHANGED serialSettings
               ELSE /\ serialSettings' = Append(serialSettings, q.settings)
                    /\ Finish(r, "200 Serial settings saved successfully")
    /\ Responds(r)
    /\ UNCHANGED <<doctors, hospitals, approvals, chambers, appointments,
                   prescriptions, serialsResponse>>

\* Two requests of the hospital's admin for the policy of a doctor run
\* concurrently or one after the other.
NextSettings ==
    \/ \E r \in RequestSlots, h \in HospitalIds, d \in DoctorIds,
          body \in SettingsBodies :
           createOrUpdateSerialSettings_Find(r, h, d, body)
    \/ \E r \in RequestSlots : createOrUpdateSerialSettings_Save(r)
    \/ \E r \in RequestSlots : createOrUpdateSerialSettings_Create(r)

SpecSettings == InitPolicy /\ [][NextSettings]_vars

\* ------------------------------------------------------------- serial states

\* Serial numbers of the requests: an even one in the range of every policy,
\* an odd one, and an even one past the range.
SerialInputs == {2, 3, PolicySerials + ExtraSerials}

\* Patient p1 asks for the serials of doctor d1 and books them, on two
\* weekdays.
NextSerials ==
    \/ BookSerial_Request(1, {"p1"}, {"d1"}, SerialInputs, Dates)
    \/ BookSerial_Resume(1)
    \/ \E date \in Dates : GetAvailableSerialsRequest("d1", date)

SpecSerials == InitBooking /\ [][NextSerials]_vars

\* ---------------------------------------------------------------- fee states
\* Bodies of the settings request that carry a new appointmentPrice only.
PriceBodies ==
    {[hasTotal |-> FALSE, total |-> 0, hasRange |-> FALSE,
      range |-> [startTime |-> <<10, 0>>, endTime |-> <<10, 40>>],
      hasPrice |-> TRUE, price |-> p] : p \in {300}}

ConsultationTypes == {"new", "follow_up"}

\* Patient p1 books a serial and a chamber slot of doctor d1 and cancels
\* bookings; the doctor accepts the earlier bookings and closes them by a
\* prescription while the hospital changes the price of the policy.
NextFee ==
    \/ BookSerial_Request(1, {"p1"}, {"d1"}, {2}, {1})
    \/ BookSerial_Resume(1)
    \/ \E type \in ConsultationTypes :
           BookAppointment("p1", "d1", 1, 1, <<9, 30>>, <<9, 45>>, type)
    \/ \E id \in 1..MaxAppointments :
           CancelAppointment("p1", id, "reason")
    \/ \E id \in 1..(MaxAppointments - 1) :
           UpdateAppointmentStatus("d1", id, "accepted", 0)
    \/ \E id \in 1..(MaxAppointments - 1) : CreatePrescription("d1", id)
    \/ \E body \in PriceBodies : createOrUpdateSerialSettings("h1", "d1", body)

\* The hospital has stored the regular policy of doctor d1, who has a chamber
\* or none yet.
InitFee ==
    /\ doctors = InitDoctors
    /\ hospitals = InitHospitals
    /\ approvals = << >>
    /\ serialSettings = <<RegularPolicy>>
    /\ chambers \in {<< >>, <<InitChamber>>}
    /\ appointments = << >>
    /\ prescriptions = {}
    /\ requests = [r \in RequestSlots |-> IdleRequest]
    /\ response = NoResponse
    /\ serialsResponse = NoSerialsResponse

SpecFee == InitFee /\ [][NextFee]_vars

\* ------------------------------------------------------------ release states
\* The statuses the doctor gives to an appointment that ends.
ClosingStatuses == {"rejected", "completed", "no_show"}

\* Patient p1 books serial 2 of doctor d1 on one date and asks for the free
\* serials; the patient cancels bookings and the doctor closes them.
NextRelease ==
    \/ BookSerial_Request(1, {"p1"}, {"d1"}, {2}, {1})
    \/ BookSerial_Resume(1)
    \/ GetAvailableSerialsRequest("d1", 1)
    \/ \E id \in 1..MaxAppointments : CancelAppointment("p1", id, "reason")
    \/ \E id \in 1..MaxAppointments, status \in ClosingStatuses :
           UpdateAppointmentStatus("d1", id, status, 0)

SpecRelease == InitBooking /\ [][NextRelease]_vars

\* ------------------------------------------------------------- window states
\* Policies of doctor d1 with one serial up to more serials than the regular
\* policy has, over ranges of 2, 17, 40, 55, 75 and 90 minutes.
WindowPolicies ==
    {Settings("d1", "h1", n, startTime, endTime, 500, {}) :
        n \in 1..(PolicySerials + ExtraSerials),
        startTime \in {<<8, 45>>, <<9, 0>>},
        endTime \in {<<9, 2>>, <<9, 40>>, <<10, 15>>}}

\* The hospital has stored one of the policies for its doctor d1.
InitWindows ==
    /\ doctors = InitDoctors
    /\ hospitals = InitHospitals
    /\ approvals = << >>
    /\ \E policy \in WindowPolicies : serialSettings = <<policy>>
    /\ chambers \in {<< >>, <<InitChamber>>}
    /\ appointments = << >>
    /\ prescriptions = {}
    /\ requests = [r \in RequestSlots |-> IdleRequest]
    /\ response = NoResponse
    /\ serialsResponse = NoSerialsResponse

\* Patient p1 asks for the serials of the date and books serials 2 and 4.
NextWindows ==
    \/ GetAvailableSerialsRequest("d1", 1)
    \/ BookSerial_Request(1, {"p1"}, {"d1"}, {2, 4}, {1})
    \/ BookSerial_Resume(1)

SpecWindows == InitWindows /\ [][NextWindows]_vars

\* ------------------------------------------------------------ getSerialStats

\* notes.match(/Serial #(\d+)/) finds an even number; the notes of a serial
\* booking are kept as the number of the serial.
NotesNameEvenSerial(notes) == notes >= 1 /\ notes % 2 = 0

\* The response of getSerialStats(hospitalId, doctorId, date) in the current
\* state: SerialSettings.findOne({doctorId, hospitalId}), the pending and
\* accepted appointments of the doctor on the date, and the statistics.
GetSerialStats(hospitalId, doctorId, date) ==
    LET id == FindSettings(doctorId, hospitalId)
        bookedAppointments == BookedAppointments(doctorId, date)
        evenNumberedSerials ==
            IF id = 0 THEN 0 ELSE serialSettings[id].totalSerialsPerDay \div 2
        bookedEvenSerials ==
            Cardinality({i \in bookedAppointments :
                            NotesNameEvenSerial(appointments[i].notes)})
    IN  IF id = 0
            THEN [code |-> 404, totalBooked |-> 0, bookedEvenSerials |-> 0,
                  availableEvenSerials |-> 0]
        ELSE [code |-> 200, totalBooked |-> Cardinality(bookedAppointments),
              bookedEvenSerials |-> bookedEvenSerials,
              availableEvenSerials |-> evenNumberedSerials - bookedEvenSerials]

\* ------------------------------------------------------- prescription states
\* The patients cancel and the doctors give every status to the stored
\* appointments, without notes, while every doctor prescribes.
NextPrescription ==
    \/ \E p \in PatientIds, id \in LifecycleIds :
           CancelAppointment(p, id, "reason")
    \/ \E d \in DoctorIds, id \in LifecycleIds, status \in AppointmentStatuses :
           UpdateAppointmentStatus(d, id, status, 0)
    \/ \E d \in DoctorIds \cup {UnknownDoctor}, id \in LifecycleIds :
           CreatePrescription(d, id)

SpecPrescription == InitLifecycle /\ [][NextPrescription]_vars

\* ------------------------------- linkDoctorToHospital, removeDoctorFromHospital

\* hospital.associatedDoctors.some(ad => ad.doctor.toString() === doctorId)
alreadyLinked(hospitalId, doctorId) ==
    \E k \in 1..Len(hospitals[hospitalId].associatedDoctors) :
        hospitals[hospitalId].associatedDoctors[k] = doctorId

\* linkDoctorToHospital: an approved doctor is pushed to the associated
\* doctors of an approved hospital and gets the hospital's id.
linkDoctorToHospital(hospitalId, doctorId) ==
    /\ IF ~hospitals[hospitalId].exists
           THEN /\ Respond("linkDoctorToHospital", 404)
                /\ UNCHANGED <<doctors, hospitals>>
       ELSE IF hospitals[hospitalId].status # "approved"
           THEN /\ Respond("linkDoctorToHospital", 403)
                /\ UNCHANGED <<doctors, hospitals>>
       ELSE IF ~doctors[doctorId].exists
           THEN /\ Respond("linkDoctorToHospital", 404)
                /\ UNCHANGED <<doctors, hospitals>>
       ELSE IF doctors[doctorId].status # "approved"
           THEN /\ Respond("linkDoctorToHospital", 400)
                /\ UNCHANGED <<doctors, hospitals>>
       ELSE IF alreadyLinked(hospitalId, doctorId)
           THEN /\ Respond("linkDoctorToHospital", 409)
                /\ UNCHANGED <<doctors, hospitals>>
       ELSE /\ hospitals' = [hospitals EXCEPT ![hospitalId].associatedDoctors =
                   Append(@, doctorId)]
            /\ doctors' = [doctors EXCEPT ![doctorId].hospitalId = hospitalId]
            /\ Respond("linkDoctorToHospital", 200)
    /\ UNCHANGED <<approvals, serialSettings, chambers, appointments,
                   prescriptions, serialsResponse>>

\* associatedDoctors.filter(ad => ad.doctor.toString() !== doctorId)
WithoutDoctor(list, doctorId) ==
    SelectSeq(list, LAMBDA linked : linked # doctorId)

\* removeDoctorFromHospital: the doctor is filtered out of the associated
\* doctors of the hospital; the Doctor document is not read or written.
removeDoctorFromHospital(hospitalId, doctorId) ==
    /\ IF ~hospitals[hospitalId].exists
           THEN /\ Respond("removeDoctorFromHospital", 404)
                /\ UNCHANGED hospitals
       ELSE /\ hospitals' = [hospitals EXCEPT ![hospitalId].associatedDoctors =
                   WithoutDoctor(@, doctorId)]
            /\ Respond("removeDoctorFromHospital", 200)
    /\ UNCHANGED <<doctors, approvals, serialSettings, chambers, appointments,
                   prescriptions, serialsResponse>>

\* ---------------------------------------------------------------- link states

\* Doctor d1 as found in the store: not registered, or registered on their
\* own and approved or still waiting for the platform.
LinkDoctors ==
    {NoDoctor} \cup
    [exists : {TRUE}, status : {"pending_super_admin", "approved"},
     hospitalId : {NoId}, userId : {NoId}]

\* Hospital h1 waits for approval or is approved and has no doctors yet;
\* doctor d2 is not registered.
InitLink ==
    /\ \E doctor \in LinkDoctors :
           doctors = [d \in DoctorIds |-> IF d = "d1" THEN doctor ELSE NoDoctor]
    /\ \E status \in {"pending_super_admin", "approved"} :
           hospitals = [h \in HospitalIds |->
               [InitHospitals[h] EXCEPT !.status = status,
                                        !.associatedDoctors = << >>]]
    /\ approvals = << >>
    /\ serialSettings = << >>
    /\ chambers = << >>
    /\ appointments = << >>
    /\ prescriptions = {}
    /\ requests = [r \in RequestSlots |-> IdleRequest]
    /\ response = NoResponse
    /\ serialsResponse = NoSerialsResponse

\* The hospital routes that add, link and remove doctors.
NextLink ==
    \/ \E a \in HospitalCallers, h \in HospitalIds, d \in DoctorIds :
           addDoctorByHospital(a, h, d)
    \/ \E h \in HospitalIds, d \in DoctorIds : linkDoctorToHospital(h, d)
    \/ \E h \in HospitalIds, d \in DoctorIds : removeDoctorFromHospital(h, d)

SpecLink == InitLink /\ [][NextLink]_vars

\* ==================================================================== claims

\* The active policy that governs a stored doctor; NoSettings when none does.
ActivePolicy(doctorId) ==
    IF doctorId \in DoctorIds
    THEN FindActiveSettings(doctorId, doctors[doctorId].hospitalId)
    ELSE NoSettings

\* The weekday of the date is one the policy allows.
DayAllowed(policy, date) ==
    policy.availableDays = {} \/ (date % 7) \in policy.availableDays

\* The request has run to its response.
Done(r) == requests[r].pc = "done"

\* The request created its appointment: it answered 201, or 500 when a
\* notification failed after the appointment was stored.
Created(r) ==
    requests[r].result \in {"201 Serial booked successfully",
                            "500 Failed to book serial"}

\* The collections of the store.
stored == <<doctors, hospitals, approvals, serialSettings, chambers, appointments,
            prescriptions>>

\* ------------------------------------------------------------------------ C1

\* C1: of two bookSerial requests, in any interleaving, for the same doctor,
\* the same date and the same even serial within the policy's range, exactly
\* one creates an appointment and the other answers 'This serial is already
\* booked'.
C1_ExactlyOneRequestBooks ==
    \A r1, r2 \in RequestSlots :
        LET q1 == requests[r1]
            q2 == requests[r2]
            policy == ActivePolicy(q1.doctorId)
        IN  (/\ r1 # r2
             /\ Done(r1) /\ Done(r2)
             /\ q1.doctorId = q2.doctorId
             /\ q1.date = q2.date
             /\ q1.serialNumber = q2.serialNumber
             /\ policy # NoSettings
             /\ doctors[q1.doctorId].status = "approved"
             /\ DayAllowed(policy, q1.date)
             /\ q1.serialNumber % 2 = 0
             /\ q1.serialNumber \in 1..policy.totalSerialsPerDay)
            => \/ Created(r1) /\ q2.result = "400 This serial is already booked"
               \/ Created(r2) /\ q1.result = "400 This serial is already booked"

\* ------------------------------------------------------------------------ C2

\* C2: no two appointments with status pending or accepted have the same
\* doctor, the same date and the same timeSlot.startTime.
C2_NoTwoActiveAppointmentsPerStart ==
    \A i, j \in 1..Len(appointments) :
        (/\ i # j
         /\ appointments[i].status \in {"pending", "accepted"}
         /\ appointments[j].status \in {"pending", "accepted"}
         /\ appointments[i].doctorId = appointments[j].doctorId
         /\ appointments[i].date = appointments[j].date)
        => appointments[i].startTime # appointments[j].startTime

\* ------------------------------------------------------------------------ C7

\* C7: no appointment of a doctor governed by an active serial policy starts
\* at the start of an odd-numbered serial of that policy.
C7_NoAppointmentAtOddSerialStart ==
    \A i \in 1..Len(appointments) :
        LET policy == ActivePolicy(appointments[i].doctorId)
        IN  policy # NoSettings =>
                \A k \in 1..policy.totalSerialsPerDay :
                    k % 2 = 1 =>
                        appointments[i].startTime #
                            FormatTime(ParseMinutes(policy.startTime)
                                       + (k - 1) * SlotDuration(policy))

\* ------------------------------------------------------------------------ C8

\* The serial of the request is odd or outside [1, totalSerialsPerDay] of the
\* doctor's active policy.
OddOrOutOfRange(q) ==
    LET policy == ActivePolicy(q.doctorId)
    IN  \/ q.serialNumber % 2 # 0
        \/ q.serialNumber < 1
        \/ policy # NoSettings /\ q.serialNumber > policy.totalSerialsPerDay

\* C8: a bookSerial request whose serial is odd or out of the policy's range
\* never gets past the checks, answers with a 4xx rejection, and no step of it
\* changes the store.
C8_OddAndOutOfRangeAreRejected ==
    [][\A r \in RequestSlots :
          LET q == requests'[r]
          IN  (q # requests[r] /\ q.pc # "idle" /\ OddOrOutOfRange(q))
              => /\ UNCHANGED stored
                 /\ q.pc \in {"hospital", "settings", "done"}
                 /\ q.pc = "done" =>
                        q.result \in
                            {"400 Validation failed",
                             "400 Only even-numbered serials can be booked online",
                             "400 Serials are not available on this day",
                             "400 Invalid serial number"}]_vars

\* An odd serial and an even serial above the range have both been rejected,
\* and nothing was stored.
C8_Witness ==
    \E r1, r2 \in RequestSlots :
        /\ Done(r1) /\ Done(r2)
        /\ requests[r1].serialNumber % 2 = 1
        /\ requests[r1].result = "400 Only even-numbered serials can be booked online"
        /\ requests[r2].serialNumber % 2 = 0
        /\ requests[r2].serialNumber >
               ActivePolicy(requests[r2].doctorId).totalSerialsPerDay
        /\ requests[r2].result = "400 Invalid serial number"
        /\ appointments = << >>

\* ------------------------------------------------------------------------ C3

\* C3: once the status of an appointment is completed, cancelled, rejected or
\* no_show, no operation changes it to another value.
C3_TerminalStatusNeverChanges ==
    [][\A i \in 1..Len(appointments) :
          appointments[i].status \in {"completed", "cancelled", "rejected", "no_show"}
              => appointments'[i].status = appointments[i].status]_vars

\* ------------------------------------------------------------------------ C4

\* C4: a doctor with status pending_hospital_and_super_admin does not become
\* approved by one approval: no single operation takes the doctor from that
\* status to approved.
C4_BothSignOffsRequired ==
    [][\A d \in DoctorIds :
          doctors[d].status = "pending_hospital_and_super_admin"
              => doctors'[d].status # "approved"]_vars

\* ------------------------------------------------------------------------ C5

\* The operation appended exactly one Approval entry, for the target and with
\* the status before and after.
OneEntryLogged(targetType, targetId, previousStatus, newStatus) ==
    /\ Len(approvals') = Len(approvals) + 1
    /\ SubSeq(approvals', 1, Len(approvals)) = approvals
    /\ approvals'[Len(approvals')].targetType = targetType
    /\ approvals'[Len(approvals')].targetId = targetId
    /\ approvals'[Len(approvals')].previousStatus = previousStatus
    /\ approvals'[Len(approvals')].newStatus = newStatus

\* C5: every change of the status of a doctor or of a hospital, registration
\* included, comes with exactly one new Approval entry whose previousStatus
\* and newStatus are the status before and after the change.
C5_EveryStatusChangeIsLogged ==
    [][/\ \A d \in DoctorIds :
              doctors'[d].status # doctors[d].status
                  => OneEntryLogged("doctor", d, doctors[d].status, doctors'[d].status)
       /\ \A h \in HospitalIds :
              hospitals'[h].status # hospitals[h].status
                  => OneEntryLogged("hospital", h, hospitals[h].status,
                                    hospitals'[h].status)]_vars

\* ------------------------------------------------------------------------ C6

\* C6: every stored appointment is of a stored doctor whose status is
\* approved (in the booking states no doctor's status changes, so the status
\* now is the status when the appointment was created).
C6_AppointmentsOnlyForApprovedDoctors ==
    \A i \in 1..Len(appointments) :
        /\ appointments[i].doctorId \in DoctorIds
        /\ doctors[appointments[i].doctorId].exists
        /\ doctors[appointments[i].doctorId].status = "approved"

\* ------------------------------------------------------------------------ C9

\* The serial numbers of the last getAvailableSerials response, in order.
ReturnedSerials ==
    [k \in 1..Len(serialsResponse.availableSerials) |->
        serialsResponse.availableSerials[k].serialNumber]

\* The even serials of the policy at whose start no pending or accepted
\* appointment of the doctor on the date starts.
UnbookedEvenSerials(policy, doctorId, date) ==
    {i \in 1..policy.totalSerialsPerDay :
        /\ i % 2 = 0
        /\ ~\E a \in 1..Len(appointments) :
               /\ appointments[a].doctorId = doctorId
               /\ appointments[a].date = date
               /\ appointments[a].status \in {"pending", "accepted"}
               /\ ParseMinutes(appointments[a].startTime) =
                      ParseMinutes(policy.startTime) + (i - 1) * SlotDuration(policy)}

\* The last getAvailableSerials request was for an approved doctor with an
\* active policy and a date whose weekday the policy allows.
AnsweredForServedDay ==
    /\ serialsResponse # NoSerialsResponse
    /\ serialsResponse.doctorId \in DoctorIds
    /\ doctors[serialsResponse.doctorId].exists
    /\ doctors[serialsResponse.doctorId].status = "approved"
    /\ ActivePolicy(serialsResponse.doctorId) # NoSettings
    /\ DayAllowed(ActivePolicy(serialsResponse.doctorId), serialsResponse.date)

\* C9: for an approved doctor with an active policy on an allowed weekday,
\* getAvailableSerials returns exactly the even serials of 1..totalSerialsPerDay
\* whose start time no pending or accepted appointment of that doctor on that
\* date has, each once.
C9_ExactlyTheUnbookedEvenSerials ==
    AnsweredForServedDay =>
        LET expected == UnbookedEvenSerials(ActivePolicy(serialsResponse.doctorId),
                            serialsResponse.doctorId, serialsResponse.date)
        IN  /\ serialsResponse.code = 200
            /\ serialsResponse.error = "none"
            /\ {ReturnedSerials[k] : k \in 1..Len(ReturnedSerials)} = expected
            /\ Len(ReturnedSerials) = Cardinality(expected)

\* A response that leaves out a booked even serial, beside a cancelled
\* appointment of the same doctor and date, and returns an unbooked one.
C9_Witness ==
    /\ AnsweredForServedDay
    /\ Len(ReturnedSerials) >= 1
    /\ \E a, c \in 1..Len(appointments) :
           /\ appointments[a].doctorId = serialsResponse.doctorId
           /\ appointments[a].date = serialsResponse.date
           /\ appointments[a].status \in {"pending", "accepted"}
           /\ \A k \in 1..Len(ReturnedSerials) :
                  appointments[a].notes # ReturnedSerials[k]
           /\ appointments[c].doctorId = serialsResponse.doctorId
           /\ appointments[c].date = serialsResponse.date
           /\ appointments[c].status = "cancelled"
           /\ \E k \in 1..Len(ReturnedSerials) :
                  appointments[c].notes = ReturnedSerials[k]

\* ----------------------------------------------------------------------- C10

\* getAvailableSerials answered for a doctor whose policy has 20 serials from
\* 09:00 to 17:00, on a date with no pending or accepted appointment of the
\* doctor.
AnsweredForEmptyDefaultDay ==
    /\ AnsweredForServedDay
    /\ LET policy == ActivePolicy(serialsResponse.doctorId)
       IN  /\ policy.totalSerialsPerDay = 20
           /\ policy.startTime = <<9, 0>>
           /\ policy.endTime = <<17, 0>>
    /\ \A a \in 1..Len(appointments) :
           ~(/\ appointments[a].doctorId = serialsResponse.doctorId
             /\ appointments[a].date = serialsResponse.date
             /\ appointments[a].status \in {"pending", "accepted"})

\* C10 as stated: the ten serials 2, 4, ..., 20 are returned and the window
\* of serial 2 is 09:00 to 09:24.
C10_SerialTwoStartsAtNine ==
    AnsweredForEmptyDefaultDay =>
        /\ ReturnedSerials = [k \in 1..10 |-> 2 * k]
        /\ serialsResponse.availableSerials[1].time = <<9, 0>>
        /\ serialsResponse.availableSerials[1].endTime = <<9, 24>>

\* C10 as the program computes it: the ten serials 2, 4, ..., 20 are
\* returned and the window of serial 2 is 09:24 to 09:48, the second of the
\* twenty 24-minute sessions.
C10_SerialTwoIsTheSecondSession ==
    AnsweredForEmptyDefaultDay =>
        /\ ReturnedSerials = [k \in 1..10 |-> 2 * k]
        /\ serialsResponse.availableSerials[1].time = <<9, 24>>
        /\ serialsResponse.availableSerials[1].endTime = <<9, 48>>

\* The response for the policy of 20 serials from 09:00 to 17:00 on a day
\* without bookings: ten serials were returned.
C10_Witness ==
    /\ AnsweredForEmptyDefaultDay
    /\ serialsResponse.code = 200
    /\ Len(serialsResponse.availableSerials) = 10

\* ----------------------------------------------------------------------- C11

\* C11: the list getAvailableSerials returns never has two entries with the
\* same start time, whatever accepted policy governs the doctor.
C11_NoTwoEntriesWithOneStart ==
    \A k, l \in 1..Len(serialsResponse.availableSerials) :
        k # l => serialsResponse.availableSerials[k].time #
                     serialsResponse.availableSerials[l].time

\* ----------------------------------------------------------------------- C12

\* C12: no two pending or accepted appointments of one doctor on one date
\* were booked under the same serial number, also when the policy changes
\* between the bookings.
C12_NoSerialNumberClaimedTwice ==
    \A i, j \in 1..Len(appointments) :
        (/\ i # j
         /\ appointments[i].status \in {"pending", "accepted"}
         /\ appointments[j].status \in {"pending", "accepted"}
         /\ appointments[i].doctorId = appointments[j].doctorId
         /\ appointments[i].date = appointments[j].date
         /\ appointments[i].notes > 0)
        => appointments[i].notes # appointments[j].notes

\* ----------------------------------------------------------------------- C13

\* A pending or accepted appointment of the doctor on the date was booked
\* under the serial number of the request.
Claimed(q) ==
    \E i \in 1..Len(appointments) :
        /\ appointments[i].doctorId = q.doctorId
        /\ appointments[i].date = q.date
        /\ appointments[i].notes = q.serialNumber
        /\ appointments[i].status \in {"pending", "accepted"}

\* C13: with an unchanged policy, a bookSerial request for a serial that an
\* earlier bookSerial booked, while that appointment is pending or accepted,
\* does not get past the check for an existing appointment: it answers 'This
\* serial is already booked' and stores nothing.
C13_BookedSerialIsRefused ==
    [][\A r \in RequestSlots :
          LET q == requests'[r]
          IN  (/\ q # requests[r]
               /\ requests[r].pc \in {"idle", "done", "hospital", "settings", "existing"}
               /\ q.pc # "idle"
               /\ Claimed(q))
              => /\ UNCHANGED <<appointments, chambers>>
                 /\ q.pc \in {"hospital", "settings", "existing", "done"}
                 /\ q.pc = "done" => q.result = "400 This serial is already booked"]_vars

\* A request for a serial whose appointment is accepted was answered 'This
\* serial is already booked'.
C13_Witness ==
    \E r \in RequestSlots :
        /\ Done(r)
        /\ requests[r].result = "400 This serial is already booked"
        /\ \E i \in 1..Len(appointments) :
               /\ appointments[i].doctorId = requests[r].doctorId
               /\ appointments[i].date = requests[r].date
               /\ appointments[i].notes = requests[r].serialNumber
               /\ appointments[i].status = "accepted"

\* ----------------------------------------------------------------------- C14

\* C14: updateAppointmentStatus changes a status only from pending to
\* accepted or rejected and from accepted to completed or no_show; any other
\* request leaves the status as it is.
C14_OnlyTheDoctorsFourTransitions ==
    [][\A d \in DoctorIds, i \in 1..Len(appointments),
          status \in AppointmentStatuses, notes \in {0, -1} :
          (/\ UpdateAppointmentStatus(d, i, status, notes)
           /\ appointments'[i].status # appointments[i].status)
          => <<appointments[i].status, appointments'[i].status>> \in
                 {<<"pending", "accepted">>, <<"pending", "rejected">>,
                  <<"accepted", "completed">>, <<"accepted", "no_show">>}]_vars

\* ----------------------------------------------------------------------- C15

\* C15: cancelAppointment on an appointment that is completed, rejected,
\* cancelled or no_show fails with 400 and leaves the appointment as it is.
C15_TerminalAppointmentIsNotCancelled ==
    [][\A p \in PatientIds, i \in 1..Len(appointments), reason \in {NoId, "reason"} :
          (/\ CancelAppointment(p, i, reason)
           /\ appointments[i].patientId = p
           /\ appointments[i].status \in
                  {"completed", "rejected", "cancelled", "no_show"})
          => /\ appointments'[i] = appointments[i]
             /\ response'.code = 400]_vars

\* ----------------------------------------------------------------------- C16

\* C16: when the patient of an accepted appointment cancels it with a reason,
\* its status becomes cancelled with cancelledBy = patient and that reason;
\* a cancelAppointment on an appointment already cancelled fails with 400 and
\* changes nothing.
C16_CancelOnceThenRefused ==
    [][\A p \in PatientIds, i \in 1..Len(appointments) :
          (CancelAppointment(p, i, "reason") /\ appointments[i].patientId = p)
          => /\ appointments[i].status = "accepted" =>
                    /\ appointments'[i].status = "cancelled"
                    /\ appointments'[i].cancelledBy = "patient"
                    /\ appointments'[i].cancellationReason = "reason"
             /\ appointments[i].status = "cancelled" =>
                    /\ response'.code = 400
                    /\ appointments' = appointments
                    /\ prescriptions' = prescriptions]_vars

\* The appointment that was stored as accepted is cancelled by its patient
\* with the reason, the other appointment is as it was stored, and a further
\* cancelAppointment was refused with 400.
C16_Witness ==
    /\ response = [op |-> "cancelAppointment", code |-> 400]
    /\ appointments[1] = [LifecycleAppointments[1] EXCEPT
                              !.status = "cancelled", !.cancelledBy = "patient",
                              !.cancellationReason = "reason"]
    /\ appointments[2] = LifecycleAppointments[2]

\* ----------------------------------------------------------------------- C17

\* C17: every appointment with status cancelled has a cancellation reason.
C17_CancelledHasReason ==
    \A i \in 1..Len(appointments) :
        appointments[i].status = "cancelled" =>
            appointments[i].cancellationReason # NoId

\* ----------------------------------------------------------------------- C18

\* C18: cancelAppointment by a caller who is not the appointment's patient
\* and updateAppointmentStatus by a caller who is not the appointment's
\* doctor answer 404 and change nothing; every change of a stored
\* appointment is made by a call of its own patient or of its own doctor.
C18_OnlyOwnPartiesChangeAnAppointment ==
    [][/\ \A p \in PatientIds, i \in LifecycleIds :
              (/\ i \in 1..Len(appointments) => appointments[i].patientId # p
               /\ CancelAppointment(p, i, "reason"))
              => response'.code = 404 /\ UNCHANGED stored
       /\ \A d \in DoctorIds \cup {UnknownDoctor}, i \in LifecycleIds,
             status \in PartyStatuses :
              (/\ i \in 1..Len(appointments) => appointments[i].doctorId # d
               /\ UpdateAppointmentStatus(d, i, status, 0))
              => response'.code = 404 /\ UNCHANGED stored
       /\ \A i \in 1..Len(appointments) :
              appointments'[i] # appointments[i] =>
                  \/ CancelAppointment(appointments[i].patientId, i, "reason")
                  \/ \E status \in PartyStatuses :
                         UpdateAppointmentStatus(appointments[i].doctorId, i,
                                                 status, 0)
                  \/ CreatePrescription(appointments[i].doctorId, i)]_vars

\* A call was answered 404 and changed nothing: the first appointment is as
\* it was stored, the second as its own patient cancelled it before.
C18_Witness ==
    /\ response.code = 404
    /\ response.op \in {"cancelAppointment", "updateAppointmentStatus"}
    /\ appointments[1] = LifecycleAppointments[1]
    /\ appointments[2] = [LifecycleAppointments[2] EXCEPT
                              !.status = "cancelled", !.cancelledBy = "patient",
                              !.cancellationReason = "reason"]

\* ----------------------------------------------------------------------- C19

\* C19: once bookSerial or bookAppointment has created the appointment, the
\* caller gets the success response, also when a notification fails.
C19_CreatedMeansSuccessResponse ==
    [][/\ \A r \in RequestSlots :
              (requests[r].pc = "notify" /\ requests'[r].pc = "done")
              => requests'[r].result = "201 Serial booked successfully"
       /\ \A d \in DoctorIds \cup {UnknownDoctor}, c \in 1..2 :
              (/\ BookAppointment("p1", d, c, 1, <<9, 0>>, <<9, 15>>, "new")
               /\ Len(appointments') > Len(appointments))
              => response'.code = 201]_vars

\* ----------------------------------------------------------------------- C20

\* The stored appointment of index i is the one the request of slot r created.
CreatedBy(i, q) ==
    /\ appointments[i].patientId = q.patientId
    /\ appointments[i].doctorId = q.doctorId
    /\ appointments[i].date = q.date
    /\ appointments[i].notes = q.serialNumber

\* C20: when a notification fails (the handler answers 500) after an
\* appointment was created, cancelled or updated, the appointment or the new
\* status stays stored; no step removes a stored appointment.
C20_FailedNotificationKeepsTheChange ==
    [][/\ \A r \in RequestSlots :
              (/\ requests[r].pc = "notify"
               /\ requests'[r].result = "500 Failed to book serial")
              => /\ appointments' = appointments
                 /\ \E i \in 1..Len(appointments) : CreatedBy(i, requests[r])
       /\ \A d \in NotifiedDoctors :
              (/\ response' = [op |-> "bookAppointment", code |-> 500]
               /\ BookAppointment("p1", d, 1, 1, <<9, 0>>, <<9, 15>>, "new"))
              => /\ Len(appointments') = Len(appointments) + 1
                 /\ appointments'[Len(appointments')].patientId = "p1"
                 /\ appointments'[Len(appointments')].doctorId = d
                 /\ appointments'[Len(appointments')].startTime = <<9, 0>>
                 /\ appointments'[Len(appointments')].status = "pending"
       /\ \A p \in PatientIds, i \in 1..Len(appointments) :
              (/\ response' = [op |-> "cancelAppointment", code |-> 500]
               /\ CancelAppointment(p, i, "reason"))
              => appointments'[i].status = "cancelled"
       /\ \A i \in 1..Len(appointments), status \in {"accepted", "rejected"} :
              (/\ response' = [op |-> "updateAppointmentStatus", code |-> 500]
               /\ UpdateAppointmentStatus("d1", i, status, 0))
              => appointments'[i].status = status
       /\ Len(appointments') >= Len(appointments)
       /\ \A i \in 1..Len(appointments) :
              /\ appointments'[i].patientId = appointments[i].patientId
              /\ appointments'[i].doctorId = appointments[i].doctorId]_vars

\* bookSerial answered 500 after a failed notification and the appointment it
\* created is stored.
C20_Witness ==
    \E r \in RequestSlots :
        /\ Done(r)
        /\ requests[r].result = "500 Failed to book serial"
        /\ \E i \in 1..Len(appointments) :
               /\ appointments[i].doctorId = requests[r].doctorId
               /\ appointments[i].date = requests[r].date
               /\ appointments[i].notes = requests[r].serialNumber
               /\ appointments[i].status = "pending"

\* ----------------------------------------------------------------------- C21

\* The response of the request of slot r reports a failure.
ErrorResult(result) ==
    result \notin {"none", "201 Serial booked successfully"}

\* C21: a booking that reports failure leaves no partial state: when
\* bookSerial or bookAppointment answers an error, the request has stored no
\* appointment, and bookAppointment leaves the chambers and the slot as they
\* were.
C21_FailedBookingLeavesNothing ==
    [][/\ \A r \in RequestSlots :
              (/\ requests[r].pc \notin {"idle", "done"}
               /\ requests'[r].pc = "done"
               /\ ErrorResult(requests'[r].result))
              => /\ ~\E i \in 1..Len(appointments') :
                        /\ CreatedBy(i, requests[r])
                        /\ appointments'[i].chamberId = requests[r].chamberId
                        /\ appointments'[i].status = "pending"
       /\ \A d \in NotifiedDoctors :
              (/\ response'.op = "bookAppointment"
               /\ response'.code # 201
               /\ BookAppointment("p1", d, 1, 1, <<9, 0>>, <<9, 15>>, "new"))
              => /\ appointments' = appointments
                 /\ chambers' = chambers
                 /\ LockSlot(d, 1, 1, <<9, 0>>, <<9, 15>>)'
                        = LockSlot(d, 1, 1, <<9, 0>>, <<9, 15>>)]_vars

\* ----------------------------------------------------------------------- C22

\* C22: in every interleaving of updateHospitalProfile requests with the
\* approval of the hospital, once the hospital's status is approved no step
\* changes its name, address or registrationNumber.
C22_CriticalFieldsFrozenOnceApproved ==
    [][\A h \in HospitalIds :
           hospitals[h].status = "approved"
           => /\ hospitals'[h].name = hospitals[h].name
              /\ hospitals'[h].address = hospitals[h].address
              /\ hospitals'[h].registrationNumber = hospitals[h].registrationNumber]_vars

\* ----------------------------------------------------------------------- C23

\* The body carries a name, an address or a registrationNumber.
CarriesIdentity(body) ==
    body.name # NoId \/ body.address # NoId \/ body.registrationNumber # NoId

\* C23: for a hospital read as approved, an updateHospitalProfile request
\* that carries name, address or registrationNumber is answered 403 and
\* changes no field, and a request that carries departments only succeeds
\* and changes exactly the departments.
C23_ApprovedProfileUpdate ==
    [][/\ \A r \in RequestSlots, h \in HospitalIds, body \in ProfileBodies :
              (/\ hospitals[h].status = "approved"
               /\ requests'[r] # requests[r]
               /\ updateHospitalProfile_Find(r, h, body))
              => IF CarriesIdentity(body)
                 THEN /\ requests'[r].result = "403 Critical fields are read-only"
                      /\ hospitals' = hospitals
                 ELSE /\ requests'[r].pc = "save"
                      /\ requests'[r].hospitalStatus = "approved"
                      /\ requests'[r].body =
                             [NoBody EXCEPT !.departments = body.departments]
       /\ \A r \in RequestSlots :
              (/\ requests[r].pc = "save"
               /\ requests[r].hospitalStatus = "approved"
               /\ requests'[r].pc = "done")
              => /\ requests'[r].result = "200 Hospital profile updated successfully"
                 /\ hospitals' = [hospitals EXCEPT
                        ![requests[r].hospitalId].departments =
                            IF requests[r].body.departments # NoId
                            THEN requests[r].body.departments ELSE @]]_vars

\* The approved hospital has new departments and its registered name and
\* address; one request was answered 200 and the other 403.
C23_Witness ==
    /\ hospitals["h1"].status = "approved"
    /\ hospitals["h1"].departments = "departments1"
    /\ hospitals["h1"].name = "name0"
    /\ hospitals["h1"].address = "address0"
    /\ requests[1].result = "200 Hospital profile updated successfully"
    /\ requests[2].result = "403 Critical fields are read-only"

\* ----------------------------------------------------------------------- C24

\* The hospital's admin may sign the doctor off.
MayApprove(callerId, hospitalId, doctorId) ==
    /\ hospitals[hospitalId].exists
    /\ hospitals[hospitalId].status = "approved"
    /\ callerId \in hospitals[hospitalId].admins
    /\ doctors[doctorId].exists
    /\ doctors[doctorId].hospitalId = hospitalId
    /\ doctors[doctorId].status \in {"pending_hospital", "pending_hospital_and_super_admin"}

\* C24: approveDoctorByHospital changes the doctor's status only when the
\* status is pending_hospital or pending_hospital_and_super_admin, the doctor
\* belongs to the hospital, the hospital is approved and the caller is one of
\* its admins; otherwise it fails, the status stays and no Approval entry is
\* written.
C24_ApprovesOnlyItsPendingDoctors ==
    [][\A a \in HospitalCallers, h \in HospitalIds, d \in DoctorIds :
           (/\ response'.op = "approveDoctorByHospital"
            /\ approveDoctorByHospital(a, h, d))
           => IF MayApprove(a, h, d)
              THEN /\ response'.code = 200
                   /\ doctors' = [doctors EXCEPT ![d].status = "approved"]
              ELSE /\ response'.code \in {400, 403, 404}
                   /\ doctors' = doctors
                   /\ approvals' = approvals]_vars

\* The admin of the approved hospital has approved its doctor d1, and a
\* further call for the approved doctor was refused.
C24_Witness ==
    /\ doctors["d1"].status = "approved"
    /\ doctors["d1"].hospitalId = "h1"
    /\ response = [op |-> "approveDoctorByHospital", code |-> 400]
    /\ Len(approvals) = 1
    /\ approvals[1].action = "approve"
    /\ approvals[1].previousStatus = "pending_hospital"

\* ----------------------------------------------------------------------- C25

\* The Approval entries written for doctor d.
EntriesOf(log, d) ==
    {i \in 1..Len(log) : log[i].targetType = "doctor" /\ log[i].targetId = d}

\* C25: a doctor created by addDoctorByHospital, called by an admin of an
\* approved hospital, is approved from creation, is in the hospital's roster
\* and has exactly one Approval entry: approve, from null to approved.
C25_AddedDoctorIsApprovedAndLogged ==
    [][\A a \in HospitalCallers, h \in HospitalIds, d \in DoctorIds :
           (/\ response' = [op |-> "addDoctorByHospital", code |-> 201]
            /\ addDoctorByHospital(a, h, d))
           => /\ hospitals[h].status = "approved"
              /\ a \in hospitals[h].admins
              /\ doctors'[d].exists
              /\ doctors'[d].status = "approved"
              /\ doctors'[d].hospitalId = h
              /\ \E k \in 1..Len(hospitals'[h].associatedDoctors) :
                     hospitals'[h].associatedDoctors[k] = d
              /\ \E i \in 1..Len(approvals') :
                     /\ EntriesOf(approvals', d) = {i}
                     /\ approvals'[i].action = "approve"
                     /\ approvals'[i].previousStatus = NoId
                     /\ approvals'[i].newStatus = "approved"]_vars

\* ----------------------------------------------------------------------- C26

\* C26: addDoctorByHospital called for a hospital that is not approved, or by
\* a caller who is not one of the hospital's admins, creates no doctor,
\* leaves the roster as it was and writes no Approval entry.
C26_OnlyApprovedHospitalsAdminsAdd ==
    [][\A a \in HospitalCallers, h \in HospitalIds, d \in DoctorIds :
           (/\ response'.op = "addDoctorByHospital"
            /\ addDoctorByHospital(a, h, d)
            /\ \/ hospitals[h].status # "approved"
               \/ a \notin hospitals[h].admins)
           => /\ response'.code \in {403, 404}
              /\ doctors' = doctors
              /\ hospitals' = hospitals
              /\ approvals' = approvals]_vars

\* The call for the hospital that still waits for its approval was answered
\* 403: no doctor exists, the roster is empty and nothing is logged.
C26_Witness ==
    /\ response = [op |-> "addDoctorByHospital", code |-> 403]
    /\ hospitals["h1"].status = "pending_super_admin"
    /\ hospitals["h1"].associatedDoctors = << >>
    /\ \A d \in DoctorIds : ~doctors[d].exists
    /\ approvals = << >>

\* ----------------------------------------------------------------------- C27

\* C27: no step moves a doctor whose status is approved into rejected.
C27_ApprovedIsNeverRejected ==
    [][\A d \in DoctorIds :
           doctors[d].status = "approved" => doctors'[d].status # "rejected"]_vars

\* ----------------------------------------------------------------------- C28

\* C28: rejection is terminal: no step changes the status of a doctor whose
\* status is rejected.
C28_RejectedStatusStays ==
    [][\A d \in DoctorIds :
           doctors[d].status = "rejected" => doctors'[d].status = "rejected"]_vars

\* ----------------------------------------------------------------------- C29

DoctorStatuses ==
    {"pending_hospital", "pending_super_admin", "pending_hospital_and_super_admin",
     "approved", "rejected"}

HospitalStatuses == {"pending_super_admin", "approved", "rejected"}

\* C29: in every reachable state the status of every doctor is one of
\* pending_hospital, pending_super_admin, pending_hospital_and_super_admin,
\* approved and rejected, and the status of every hospital is one of
\* pending_super_admin, approved and rejected.
C29_StatusesAreOfTheWorkflow ==
    /\ \A d \in DoctorIds : doctors[d].exists => doctors[d].status \in DoctorStatuses
    /\ \A h \in HospitalIds :
           hospitals[h].exists => hospitals[h].status \in HospitalStatuses

\* ----------------------------------------------------------------------- C30

\* C30: after any sequence or interleaving of createOrUpdateSerialSettings
\* calls there is at most one SerialSettings record of a doctor and a
\* hospital, and at most one of a doctor without a hospital.
C30_OnePolicyPerDoctorAndHospital ==
    \A i, j \in 1..Len(serialSettings) :
        (/\ serialSettings[i].doctorId = serialSettings[j].doctorId
         /\ serialSettings[i].hospitalId = serialSettings[j].hospitalId)
        => i = j

\* ----------------------------------------------------------------------- C31

\* Responses bookSerial gives before it looks at the weekday.
BeforeDayCheck ==
    {"none", "400 Validation failed",
     "400 Only even-numbered serials can be booked online",
     "404 Doctor not found or not available",
     "404 Serial settings not found for this doctor"}

\* C31: with an empty availableDays every weekday is allowed; with a
\* non-empty availableDays that lacks the weekday of the date,
\* getAvailableSerials returns no serial, bookSerial rejects the request and
\* no appointment is created for that date.
C31_DayOfWeekRule ==
    LET policy == ActivePolicy("d1")
    IN  /\ serialsResponse.doctorId = "d1" /\ serialsResponse.code = 200
           => /\ serialsResponse.error = "No serials available on this day"
                 <=> ~DayAllowed(policy, serialsResponse.date)
              /\ ~DayAllowed(policy, serialsResponse.date)
                 => serialsResponse.availableSerials = << >>
        /\ \A r \in RequestSlots :
               (Done(r) /\ requests[r].result \notin BeforeDayCheck)
               => (requests[r].result = "400 Serials are not available on this day"
                   <=> ~DayAllowed(policy, requests[r].date))
        /\ \A i \in 1..Len(appointments) :
               appointments[i].notes >= 1 => DayAllowed(policy, appointments[i].date)

\* Under the policy for weekday 2, getAvailableSerials has answered the
\* request for date 1 with no serial and bookSerial has refused date 1.
C31_Witness ==
    /\ ActivePolicy("d1").availableDays = {2}
    /\ serialsResponse.code = 200
    /\ serialsResponse.date = 1
    /\ serialsResponse.availableSerials = << >>
    /\ \E r \in RequestSlots :
           /\ requests[r].date = 1
           /\ requests[r].result = "400 Serials are not available on this day"
    /\ \E i \in 1..Len(appointments) :
           appointments[i].date = 2 /\ appointments[i].notes >= 1

\* ----------------------------------------------------------------------- C32

\* What the caller of getAvailableSerials can tell from a response.
Outcome(resp) == <<resp.code, resp.error>>

\* C32: getAvailableSerials reports an unknown doctor, a doctor that is not
\* approved and a missing serial policy each with an outcome of its own.
C32_FailuresAreToldApart ==
    \A date \in Dates, d \in DoctorIds :
        LET unknown == Outcome(GetAvailableSerials(UnknownDoctor, date))
            asked == Outcome(GetAvailableSerials(d, date))
        IN  /\ (doctors[d].exists /\ doctors[d].status # "approved")
               => asked # unknown
            /\ (/\ doctors[d].exists
                /\ doctors[d].status = "approved"
                /\ ActivePolicy(d) = NoSettings)
               => asked # unknown

\* ----------------------------------------------------------------------- C33

\* C33: the fee of an appointment is set when the appointment is created, to
\* the appointmentPrice of the policy the bookSerial request loaded or to the
\* chamber's followUpFee (consultationType follow_up) or consultationFee
\* (otherwise) for bookAppointment, and no later step changes the fee of an
\* appointment that exists.
C33_FeeIsSetOnceAtCreation ==
    [][/\ \A id \in 1..Len(appointments) :
              /\ id <= Len(appointments')
              /\ appointments'[id].fee = appointments[id].fee
       /\ Len(appointments') > Len(appointments) =>
              LET created == appointments'[Len(appointments')]
              IN  /\ Len(appointments') = Len(appointments) + 1
                  /\ \A r \in RequestSlots :
                         requests[r].pc = "create" /\ requests'[r].pc # "create"
                             => created.fee = requests[r].settings.appointmentPrice
                  /\ \A type \in ConsultationTypes :
                         (/\ response'.op = "bookAppointment"
                          /\ BookAppointment("p1", "d1", 1, 1, <<9, 30>>,
                                             <<9, 45>>, type))
                             => created.fee =
                                    IF type = "follow_up"
                                    THEN chambers[1].followUpFee
                                    ELSE chambers[1].consultationFee
      ]_vars

\* A serial booked at the price of 500 is closed by a prescription after the
\* price of the policy has changed, next to a follow-up booked in the chamber.
C33_Witness ==
    /\ Len(appointments) = 2
    /\ \E id \in 1..2 :
           /\ appointments[id].notes >= 1
           /\ appointments[id].fee = 500
           /\ appointments[id].status = "completed"
           /\ appointments[3 - id].notes = 0
           /\ appointments[3 - id].fee = InitChamber.followUpFee
           /\ appointments[3 - id].status = "cancelled"
    /\ serialSettings[1].appointmentPrice = 300

\* ----------------------------------------------------------------------- C34

\* A pending or accepted appointment of the doctor starts at the time on the
\* date.
Held(records, doctorId, date, time) ==
    \E i \in 1..Len(records) :
        /\ records[i].doctorId = doctorId
        /\ records[i].date = date
        /\ records[i].startTime = time
        /\ records[i].status \in {"pending", "accepted"}

\* The serial numbers of a list getAvailableSerials returns.
Listed(list) == {list[k].serialNumber : k \in 1..Len(list)}

\* Every serial appointment that was cancelled, rejected, completed or marked
\* no_show, and whose start time no pending or accepted appointment of the
\* doctor holds on the date, is in the list getAvailableSerials returns.
ReleasedSerialsListed ==
    \A id \in 1..Len(appointments) :
        LET a == appointments[id]
        IN  (/\ a.notes >= 1
             /\ a.status \in {"cancelled", "rejected", "completed", "no_show"}
             /\ ~Held(appointments, a.doctorId, a.date, a.startTime))
            => a.notes \in
                   Listed(GetAvailableSerials(a.doctorId, a.date).availableSerials)

\* C34: when the only pending or accepted appointment that holds an even
\* serial of a doctor on a date is cancelled, rejected, completed or marked
\* no_show, getAvailableSerials lists the serial again, and a bookSerial
\* request for a serial that no pending or accepted appointment holds passes
\* the check of the booked serials and stores its appointment.
C34_ReleasedSerialIsBookableAgain ==
    /\ []ReleasedSerialsListed
    /\ [][\A r \in RequestSlots :
              LET q == requests[r]
              IN  /\ (/\ q.pc = "existing"
                      /\ requests'[r].pc # "existing"
                      /\ ~Held(appointments, q.doctorId, q.date,
                               SerialStartTime(q.settings, q.serialNumber)))
                     => requests'[r].pc = "chamber"
                  /\ (q.pc = "create" /\ requests'[r].pc # "create")
                     => /\ Len(appointments') = Len(appointments) + 1
                        /\ appointments'[Len(appointments')].notes = q.serialNumber
                        /\ appointments'[Len(appointments')].status = "pending"
                  /\ (q.pc = "notify" /\ requests'[r].pc = "done")
                     => requests'[r].result \in
                            {"201 Serial booked successfully",
                             "500 Failed to book serial"}
        ]_vars

\* The appointment that held serial 2 was closed, getAvailableSerials lists
\* serial 2 and a second appointment for serial 2 has been stored.
C34_Witness ==
    /\ Len(appointments) = 2
    /\ appointments[1].notes = 2
    /\ appointments[1].status \in {"cancelled", "no_show"}
    /\ appointments[2].notes = 2
    /\ appointments[2].date = appointments[1].date
    /\ appointments[2].status = "pending"
    /\ requests[1].result = "201 Serial booked successfully"
    /\ serialsResponse.code = 200
    /\ 2 \in Listed(serialsResponse.availableSerials)

\* ----------------------------------------------------------------------- C35

\* The entries of the list getAvailableSerials returns for the doctor and the
\* date in the current state.
ListedNow(doctorId, date) == GetAvailableSerials(doctorId, date).availableSerials

\* C35: getAvailableSerials and bookSerial agree on the same stored state: a
\* bookSerial request that ends before Appointment.create asks for a serial
\* that getAvailableSerials does not list, and a request that stores its
\* appointment asks for a listed serial and stores the time and endTime that
\* getAvailableSerials reports for it.
C35_ListedIffBookable ==
    [][\A r \in RequestSlots :
           LET q == requests[r]
               after == requests'[r]
           IN  /\ (/\ after.pc = "done"
                   /\ after # q
                   /\ q.pc # "notify")
                  => after.serialNumber \notin
                         Listed(ListedNow(after.doctorId, after.date))
               /\ (q.pc = "create" /\ after.pc # "create")
                  => \E k \in 1..Len(ListedNow(q.doctorId, q.date)) :
                         LET entry == ListedNow(q.doctorId, q.date)[k]
                             created == appointments'[Len(appointments')]
                         IN  /\ entry.serialNumber = q.serialNumber
                             /\ created.startTime = entry.time
                             /\ created.endTime = entry.endTime
                             /\ created.date = q.date
                             /\ created.doctorId = q.doctorId
      ]_vars

\* Serial 2 of a date is booked: getAvailableSerials answers for that date
\* with serial 4 and without serial 2, and a request for serial 2 was refused.
C35_Witness ==
    /\ \E id \in 1..Len(appointments) :
           /\ appointments[id].notes = 2
           /\ appointments[id].date = serialsResponse.date
           /\ appointments[id].status = "pending"
    /\ serialsResponse.code = 200
    /\ Listed(serialsResponse.availableSerials) = {4}
    /\ requests[1].pc = "done"
    /\ requests[1].date = serialsResponse.date
    /\ requests[1].result = "400 This serial is already booked"

\* ----------------------------------------------------------------------- C36

\* Minutes since midnight of a time of day.
Minutes(time) == time[1] * 60 + time[2]

\* start + (i - 1) * floor(R / N) of a policy.
WindowStart(policy, i) ==
    Minutes(policy.startTime)
        + (i - 1) * ((Minutes(policy.endTime) - Minutes(policy.startTime))
                         \div policy.totalSerialsPerDay)

\* start + i * floor(R / N) of a policy.
WindowEnd(policy, i) ==
    Minutes(policy.startTime)
        + i * ((Minutes(policy.endTime) - Minutes(policy.startTime))
                   \div policy.totalSerialsPerDay)

\* C36: with range R minutes and N serials, serial i of 1..N has the window
\* from start + (i - 1) * floor(R / N) to start + i * floor(R / N); the
\* windows are in chronological order, do not overlap, have one length, and
\* the last one ends R mod N minutes before the policy's endTime.  The
\* times getAvailableSerials reports and bookSerial stores are these windows.
C36_SerialWindows ==
    LET policy == serialSettings[1]
        N == policy.totalSerialsPerDay
        R == Minutes(policy.endTime) - Minutes(policy.startTime)
    IN  /\ \A i \in 1..N :
               /\ Minutes(SerialStartTime(policy, i)) = WindowStart(policy, i)
               /\ Minutes(SerialEndTime(policy, i)) = WindowEnd(policy, i)
               /\ Minutes(SerialEndTime(policy, i))
                      - Minutes(SerialStartTime(policy, i)) = R \div N
               /\ \A j \in (i + 1)..N :
                      Minutes(SerialEndTime(policy, i))
                          <= Minutes(SerialStartTime(policy, j))
        /\ Minutes(SerialEndTime(policy, N)) <= Minutes(policy.endTime)
        /\ Minutes(policy.endTime) - Minutes(SerialEndTime(policy, N)) = R % N
        /\ \A k \in 1..Len(serialsResponse.availableSerials) :
               LET entry == serialsResponse.availableSerials[k]
               IN  /\ entry.serialNumber \in 1..N
                   /\ Minutes(entry.time) = WindowStart(policy, entry.serialNumber)
                   /\ Minutes(entry.endTime) = WindowEnd(policy, entry.serialNumber)
        /\ \A id \in 1..Len(appointments) :
               LET a == appointments[id]
               IN  /\ a.notes \in 1..N
                   /\ Minutes(a.startTime) = WindowStart(policy, a.notes)
                   /\ Minutes(a.endTime) = WindowEnd(policy, a.notes)

\* A policy whose range leaves a remainder: getAvailableSerials reported the
\* windows of its free serials after serial 4 was booked.
C36_Witness ==
    LET policy == serialSettings[1]
    IN  /\ (Minutes(policy.endTime) - Minutes(policy.startTime))
               % policy.totalSerialsPerDay > 0
        /\ policy.totalSerialsPerDay = PolicySerials + ExtraSerials
        /\ Len(appointments) = 1
        /\ appointments[1].notes = 4
        /\ serialsResponse.code = 200
        /\ Listed(serialsResponse.availableSerials) =
               {i \in 1..policy.totalSerialsPerDay : i % 2 = 0} \ {4}

\* ----------------------------------------------------------------------- C37

\* C37: for every doctor of a hospital and every date, availableEvenSerials
\* of getSerialStats equals the number of serials getAvailableSerials
\* returns.
C37_StatsAgreeWithAvailability ==
    \A d \in DoctorIds, date \in Dates :
        LET hid == doctors[d].hospitalId
            listed == GetAvailableSerials(d, date)
        IN  (/\ doctors[d].exists
             /\ hid \in HospitalIds
             /\ listed.code = 200
             /\ listed.error = "none"
             /\ GetSerialStats(hid, d, date).code = 200)
            => GetSerialStats(hid, d, date).availableEvenSerials
                   = Len(listed.availableSerials)

\* ----------------------------------------------------------------------- C38

\* C38: createPrescription fails with 404 and changes nothing for an
\* appointment that is not the calling doctor's or is pending, rejected,
\* cancelled or no_show; for an appointment that has a prescription it leaves
\* the appointment as it is; otherwise it stores the first prescription,
\* links it and sets the status to completed.  The only change of a status it
\* makes is from accepted to completed.
C38_PrescriptionCompletesAccepted ==
    [][\A d \in DoctorIds \cup {UnknownDoctor}, id \in LifecycleIds :
           (/\ response'.op = "createPrescription"
            /\ CreatePrescription(d, id))
           => LET own == /\ d \in DoctorIds
                         /\ doctors[d].exists
                         /\ id \in 1..Len(appointments)
                         /\ appointments[id].doctorId = d
                  refused ==
                      \/ ~own
                      \/ appointments[id].status \in
                             {"pending", "rejected", "cancelled", "no_show"}
              IN  /\ refused => /\ response'.code = 404
                                /\ appointments' = appointments
                                /\ prescriptions' = prescriptions
                  /\ (~refused /\ id \in prescriptions)
                         => /\ appointments' = appointments
                            /\ prescriptions' = prescriptions
                            /\ response'.code # 404
                  /\ (~refused /\ id \notin prescriptions)
                         => /\ prescriptions' = prescriptions \cup {id}
                            /\ appointments'[id].prescription
                            /\ appointments'[id].status = "completed"
                            /\ response'.code # 404
                  /\ Len(appointments') = Len(appointments)
                  /\ \A i \in 1..Len(appointments) :
                         appointments'[i].status # appointments[i].status
                             => /\ i = id
                                /\ appointments[i].status = "accepted"
                                /\ appointments'[i].status = "completed"
      ]_vars

\* The doctor set an appointment that has a prescription back to accepted;
\* createPrescription then answered without changing the status.
C38_Witness ==
    /\ response.op = "createPrescription"
    /\ response.code = 201
    /\ \E id \in 1..Len(appointments) :
           /\ id \in prescriptions
           /\ appointments[id].prescription
           /\ appointments[id].status = "accepted"

\* ----------------------------------------------------------------------- C39

\* C39: a doctor whose hospitalId is hospital H appears in H's
\* associatedDoctors, and appears there at most once.
C39_RosterConsistency ==
    \A d \in DoctorIds, h \in HospitalIds :
        LET list == hospitals[h].associatedDoctors
            places == {k \in 1..Len(list) : list[k] = d}
        IN  /\ Cardinality(places) <= 1
            /\ (doctors[d].exists /\ doctors[d].hospitalId = h)
                   => Cardinality(places) = 1

====
